---- MODULE Spec2Model ----
(***************************************************************************)
(* Verification model of the jackbot-sensor market-data core: the L2       *)
(* order-book sequencers of each exchange and the transformers that route  *)
(* wire messages through them.                                             *)
(*                                                                         *)
(* A Rust Result<Option<Update>, DataError> is modelled as a record:       *)
(*   Ok(Some(u))  [tag |-> "Some", update |-> u]                           *)
(*   Ok(None)     [tag |-> "None"]                                         *)
(*   Err(e)       [tag |-> "Err", error |-> e]                             *)
(* A method taking &mut self is an operator returning                      *)
(*   [self |-> the sequencer after the call, ret |-> the returned value].  *)
(***************************************************************************)
EXTENDS Integers, Sequences, FiniteSets, TLC

VARIABLES sequencer, call, accepted, transformer, initCall, xfCall,
          orderBook, engine, twin, client, monitor,
          scheduler, breaker, session,
          okx, stream, maker

vars == <<sequencer, call, accepted, transformer, initCall, xfCall,
          orderBook, engine, twin, client, monitor,
          scheduler, breaker, session,
          okx, stream, maker>>

seqVars == <<sequencer, call, accepted>>

xfVars == <<transformer, initCall, xfCall>>

\* the order book fed with events
bookVars == <<orderBook>>

\* the paper engine (and a second engine given the same orders), the paper
\* client around an engine, the safety monitor
execVars == <<engine, twin, client, monitor>>

\* the snapshot scheduler with its buffer, store and catalog, the circuit
\* breaker, and a user WebSocket session with its consumer
infraVars == <<scheduler, breaker, session>>

\* the OKX order-book transformer of one instrument, a reconnecting stream
\* with its consumer, and an AlwaysMaker execution with its client
flowVars == <<okx, stream, maker>>

\* a component that a specification leaves out
Absent == [tag |-> "absent"]

NoFlow ==
    /\ okx = Absent
    /\ stream = Absent
    /\ maker = Absent

NoInfra ==
    /\ scheduler = Absent
    /\ breaker = Absent
    /\ session = Absent

NoExecution ==
    /\ orderBook = Absent
    /\ engine = Absent
    /\ twin = Absent
    /\ client = Absent
    /\ monitor = Absent

(***************************************************************************)
(* Bounds                                                                  *)
(***************************************************************************)
\* largest sequence number / update id fed to a sequencer on its own
MaxSeq == 6

\* cap of the u64 counter updates_processed
MaxUpdates == 2

\* largest sequence number fed to a transformer
MaxXfSeq == 2

\* largest number of initial events handed to a transformer's init
MaxSnapshots == 2

SeqIds == 0..MaxSeq

XfSeqIds == 0..MaxXfSeq

(***************************************************************************)
(* Results and errors                                                      *)
(***************************************************************************)
OkSome(update) == [tag |-> "Some", update |-> update]

OkNone == [tag |-> "None"]

OkUnit == [tag |-> "Ok"]

Err(error) == [tag |-> "Err", error |-> error]

InvalidSequence(prev, first) ==
    [kind |-> "InvalidSequence", prev_last_update_id |-> prev, first_update_id |-> first]

InitialSnapshotMissing(sub_id) == [kind |-> "InitialSnapshotMissing", sub_id |-> sub_id]

InitialSnapshotInvalid == [kind |-> "InitialSnapshotInvalid"]

Unidentifiable(sub_id) == [kind |-> "Unidentifiable", sub_id |-> sub_id]

(***************************************************************************)
(* Single-ID sequencers                                                    *)
(***************************************************************************)
BybitSpotOrderBookL2Sequencer_new(sequence) == [last_sequence |-> sequence]

\* a plausible slip: the gap check is applied after the sequence is stored
BybitSpotOrderBookL2Sequencer_validate_sequence_StoreFirst(self, update) ==
    IF update.data.sequence <= self.last_sequence
    THEN [self |-> self, ret |-> OkNone]
    ELSE IF update.data.sequence # self.last_sequence + 1
         THEN [self |-> [self EXCEPT !.last_sequence = update.data.sequence],
               ret |-> Err(InvalidSequence(self.last_sequence, update.data.sequence))]
         ELSE [self |-> [self EXCEPT !.last_sequence = update.data.sequence],
               ret |-> OkSome(update)]

BybitSpotOrderBookL2Sequencer_validate_sequence(self, update) ==
    IF update.data.sequence <= self.last_sequence
    THEN [self |-> self, ret |-> OkNone]
    ELSE IF update.data.sequence # self.last_sequence + 1
         THEN [self |-> self,
               ret |-> Err(InvalidSequence(self.last_sequence, update.data.sequence))]
         ELSE [self |-> [self EXCEPT !.last_sequence = update.data.sequence],
               ret |-> OkSome(update)]

CoinbaseOrderBookL2Sequencer_new(sequence) == [sequence |-> sequence]

\* a plausible slip: the stale test is strict, so a duplicate is an error
CoinbaseOrderBookL2Sequencer_validate_sequence_StrictStale(self, update) ==
    IF update.sequence < self.sequence
    THEN [self |-> self, ret |-> OkNone]
    ELSE IF update.sequence # self.sequence + 1
         THEN [self |-> self, ret |-> Err(InvalidSequence(self.sequence, update.sequence))]
         ELSE [self |-> [self EXCEPT !.sequence = update.sequence], ret |-> OkSome(update)]

CoinbaseOrderBookL2Sequencer_validate_sequence(self, update) ==
    IF update.sequence <= self.sequence
    THEN [self |-> self, ret |-> OkNone]
    ELSE IF update.sequence # self.sequence + 1
         THEN [self |-> self, ret |-> Err(InvalidSequence(self.sequence, update.sequence))]
         ELSE [self |-> [self EXCEPT !.sequence = update.sequence], ret |-> OkSome(update)]

GateioFuturesOrderBookL2Sequencer_new(last_update_id) == [last_update_id |-> last_update_id]

\* a plausible slip: the update is returned but its id is not stored
GateioFuturesOrderBookL2Sequencer_validate_sequence_NoStore(self, update) ==
    IF update.last_update_id <= self.last_update_id
    THEN [self |-> self, ret |-> OkNone]
    ELSE [self |-> self, ret |-> OkSome(update)]

GateioFuturesOrderBookL2Sequencer_validate_sequence(self, update) ==
    IF update.last_update_id <= self.last_update_id
    THEN [self |-> self, ret |-> OkNone]
    ELSE [self |-> [self EXCEPT !.last_update_id = update.last_update_id],
          ret |-> OkSome(update)]

KrakenOrderBookL2Sequencer_default == [last_sequence |-> 0]

KrakenOrderBookL2Sequencer_new(sequence) == [last_sequence |-> sequence]

KrakenOrderBookL2Sequencer_validate_sequence(self, update) ==
    LET sequence == update.sequence
    IN IF sequence <= self.last_sequence
       THEN [self |-> self, ret |-> OkNone]
       ELSE IF self.last_sequence # 0 /\ sequence # self.last_sequence + 1
            THEN [self |-> self, ret |-> Err(InvalidSequence(self.last_sequence, sequence))]
            ELSE [self |-> [self EXCEPT !.last_sequence = sequence], ret |-> OkSome(update)]

(***************************************************************************)
(* Pair-ID sequencers (first_update_id U, last_update_id u)                *)
(***************************************************************************)
GateioSpotOrderBookL2Sequencer_new(last_update_id) ==
    [updates_processed |-> 0, last_update_id |-> last_update_id,
     prev_last_update_id |-> last_update_id]

GateioSpotOrderBookL2Sequencer_is_first_update(self) == self.updates_processed = 0

\* a plausible slip: the first update must start exactly at the snapshot's successor
GateioSpotOrderBookL2Sequencer_validate_first_update_Exact(self, update) ==
    LET expected == self.last_update_id + 1
    IN IF update.first_update_id = expected /\ update.last_update_id >= expected
       THEN OkUnit
       ELSE Err(InvalidSequence(self.last_update_id, update.first_update_id))

GateioSpotOrderBookL2Sequencer_validate_first_update(self, update) ==
    LET expected == self.last_update_id + 1
    IN IF update.first_update_id <= expected /\ update.last_update_id >= expected
       THEN OkUnit
       ELSE Err(InvalidSequence(self.last_update_id, update.first_update_id))

GateioSpotOrderBookL2Sequencer_validate_next_update(self, update) ==
    LET expected == self.last_update_id + 1
    IN IF update.first_update_id = expected
       THEN OkUnit
       ELSE Err(InvalidSequence(self.last_update_id, update.first_update_id))

GateioSpotOrderBookL2Sequencer_validate_sequence(self, update) ==
    IF update.last_update_id <= self.last_update_id
    THEN [self |-> self, ret |-> OkNone]
    ELSE LET checked ==
                 IF GateioSpotOrderBookL2Sequencer_is_first_update(self)
                 THEN GateioSpotOrderBookL2Sequencer_validate_first_update(self, update)
                 ELSE GateioSpotOrderBookL2Sequencer_validate_next_update(self, update)
         IN IF checked.tag = "Err"
            THEN [self |-> self, ret |-> checked]
            ELSE [self |-> [updates_processed |-> self.updates_processed + 1,
                            prev_last_update_id |-> self.last_update_id,
                            last_update_id |-> update.last_update_id],
                  ret |-> OkSome(update)]

\* HasUpdateIds of the test double DummyUpdate {first, last}
DummyUpdate_first_update_id(update) == update.first

DummyUpdate_last_update_id(update) == update.last

BinanceSpotOrderBookL2Sequencer_new(last_update_id) ==
    [updates_processed |-> 0, last_update_id |-> last_update_id,
     prev_last_update_id |-> last_update_id]

BinanceSpotOrderBookL2Sequencer_is_first_update(self) == self.updates_processed = 0

BinanceSpotOrderBookL2Sequencer_validate_first_update(self, update) ==
    IF /\ DummyUpdate_first_update_id(update) <= self.last_update_id + 1
       /\ DummyUpdate_last_update_id(update) >= self.last_update_id + 1
    THEN OkUnit
    ELSE Err(InvalidSequence(self.last_update_id, DummyUpdate_first_update_id(update)))

\* the code compares with prev_last_update_id, not last_update_id
BinanceSpotOrderBookL2Sequencer_validate_next_update(self, update) ==
    IF DummyUpdate_first_update_id(update) = self.prev_last_update_id + 1
    THEN OkUnit
    ELSE Err(InvalidSequence(self.prev_last_update_id, DummyUpdate_first_update_id(update)))

BinanceSpotOrderBookL2Sequencer_validate_sequence(self, update) ==
    LET checked ==
            IF self.updates_processed = 0
            THEN BinanceSpotOrderBookL2Sequencer_validate_first_update(self, update)
            ELSE BinanceSpotOrderBookL2Sequencer_validate_next_update(self, update)
    IN IF checked.tag = "Err"
       THEN [self |-> self, ret |-> checked]
       ELSE [self |-> [prev_last_update_id |-> self.last_update_id,
                       last_update_id |-> DummyUpdate_last_update_id(update),
                       updates_processed |-> self.updates_processed + 1],
             ret |-> OkSome(update)]

\* Option<u64>: None is written -1, Some(n) is n; unwrap_or_default gives 0
None == -1

unwrap_or_default(opt) == IF opt = None THEN 0 ELSE opt

KucoinOrderBookL2_first_update_id(update) == unwrap_or_default(update.sequence_start)

KucoinOrderBookL2_last_update_id(update) ==
    unwrap_or_default(IF update.sequence_end # None THEN update.sequence_end
                      ELSE update.sequence)

KucoinSpotOrderBookL2Sequencer_new(last_update_id) ==
    [last_update_id |-> last_update_id, updates_processed |-> 0]

KucoinSpotOrderBookL2Sequencer_is_first_update(self) == self.updates_processed = 0

KucoinSpotOrderBookL2Sequencer_validate_sequence(self, update) ==
    LET start == KucoinOrderBookL2_first_update_id(update)
        end == KucoinOrderBookL2_last_update_id(update)
        taken == [self |-> [last_update_id |-> end,
                            updates_processed |-> self.updates_processed + 1],
                  ret |-> OkSome(update)]
        refused == [self |-> self, ret |-> Err(InvalidSequence(self.last_update_id, start))]
    IN IF self.updates_processed = 0
       THEN IF start <= self.last_update_id + 1 /\ end >= self.last_update_id + 1
            THEN taken ELSE refused
       ELSE IF start = self.last_update_id + 1
            THEN taken ELSE refused

(***************************************************************************)
(* prev-seq sequencer (OKX)                                                *)
(***************************************************************************)
OkxOrderBookL2Sequencer_new(seq_id) == [updates_processed |-> 0, last_seq_id |-> seq_id]

\* a plausible slip: the chain test compares seq_id instead of prev_seq_id
OkxOrderBookL2Sequencer_validate_sequence_ChainOnSeq(self, update) ==
    IF update.data = <<>>
    THEN [self |-> self, ret |-> OkNone]
    ELSE LET data == Head(update.data)
         IN IF data.seq_id < self.last_seq_id
            THEN [self |-> self, ret |-> OkNone]
            ELSE IF data.seq_id # self.last_seq_id + 1
                 THEN [self |-> self,
                       ret |-> Err(InvalidSequence(self.last_seq_id, data.prev_seq_id))]
                 ELSE [self |-> [updates_processed |-> self.updates_processed + 1,
                                 last_seq_id |-> data.seq_id],
                       ret |-> OkSome([update EXCEPT !.data = <<data>>])]

\* both branches of the updates_processed test make the same comparison
OkxOrderBookL2Sequencer_validate_sequence(self, update) ==
    IF update.data = <<>>
    THEN [self |-> self, ret |-> OkNone]
    ELSE LET data == Head(update.data)
         IN IF data.seq_id < self.last_seq_id
            THEN [self |-> self, ret |-> OkNone]
            ELSE IF data.prev_seq_id # self.last_seq_id
                 THEN [self |-> self,
                       ret |-> Err(InvalidSequence(self.last_seq_id, data.prev_seq_id))]
                 ELSE [self |-> [updates_processed |-> self.updates_processed + 1,
                                 last_seq_id |-> data.seq_id],
                       ret |-> OkSome([update EXCEPT !.data = <<data>>])]

(***************************************************************************)
(* Wire updates, as far as a sequencer reads them                          *)
(***************************************************************************)
Option(S) == S \cup {None}

BybitSpotOrderBookL2Update(subs, ids) == [subscription_id : subs, data : [sequence : ids]]

CoinbaseOrderBookL2Update(subs, ids) == [subscription_id : subs, sequence : ids]

GateioFuturesOrderBookL2Update(subs, ids) == [subscription_id : subs, last_update_id : ids]

KrakenOrderBookL2Inner(subs, ids) ==
    [tag : {"Snapshot", "Update"}, subscription_id : subs, sequence : ids]

\* a pair-ID update covers the ids first_update_id..last_update_id
GateioSpotOrderBookL2Update(subs, ids) ==
    {u \in [subscription_id : subs, first_update_id : ids, last_update_id : ids] :
        u.first_update_id <= u.last_update_id}

DummyUpdate(ids) == {u \in [first : ids, last : ids] : u.first <= u.last}

\* sequence is read only when sequence_end is absent, so it is left out otherwise
KucoinOrderBookL2(subs, ids) ==
    {u \in [subscription_id : subs, sequence_start : Option(ids),
            sequence_end : Option(ids), sequence : Option(ids)] :
        u.sequence_end # None => u.sequence = None}

OkxOrderBookL2Snapshot(ids) == [seq_id : ids, prev_seq_id : ids]

\* data holds no entry, one entry, or (in an "update") an entry and a second one
OkxOrderBookL2Update(subs, actions, ids) ==
    {u \in [subscription_id : subs, action : actions,
            data : {<<>>} \cup {<<d>> : d \in OkxOrderBookL2Snapshot(ids)}
                          \cup {<<d, [seq_id |-> 0, prev_seq_id |-> 0]>> :
                                    d \in OkxOrderBookL2Snapshot(ids)}] :
        u.action = "snapshot" => Len(u.data) = 1}

(***************************************************************************)
(* A sequencer on its own: created by new(s), then fed any updates.        *)
(* call is the latest validate_sequence call (sequencer before, update,    *)
(* returned value); accepted holds the update accepted most recently       *)
(* before that call, if any.                                               *)
(***************************************************************************)
SequencerKinds ==
    {"BybitSpot", "Coinbase", "GateioFutures", "Kraken",
     "GateioSpot", "BinanceSpot", "KucoinSpot", "Okx"}

SingleIdKinds == {"BybitSpot", "Coinbase", "GateioFutures", "Kraken"}

PairIdKinds == {"GateioSpot", "BinanceSpot", "KucoinSpot"}

Sequencer_new(kind, s) ==
    CASE kind = "BybitSpot" -> BybitSpotOrderBookL2Sequencer_new(s)
      [] kind = "Coinbase" -> CoinbaseOrderBookL2Sequencer_new(s)
      [] kind = "GateioFutures" -> GateioFuturesOrderBookL2Sequencer_new(s)
      [] kind = "Kraken" -> KrakenOrderBookL2Sequencer_new(s)
      [] kind = "GateioSpot" -> GateioSpotOrderBookL2Sequencer_new(s)
      [] kind = "BinanceSpot" -> BinanceSpotOrderBookL2Sequencer_new(s)
      [] kind = "KucoinSpot" -> KucoinSpotOrderBookL2Sequencer_new(s)
      [] kind = "Okx" -> OkxOrderBookL2Sequencer_new(s)

NoCall == [tag |-> "none"]

ProcessedWithinCap(self) ==
    "updates_processed" \in DOMAIN self => self.updates_processed <= MaxUpdates

Validated(update, r) ==
    /\ ProcessedWithinCap(r.self)
    /\ sequencer' = [sequencer EXCEPT !.self = r.self]
    /\ call' = [tag |-> "call", pre |-> sequencer.self, update |-> update, ret |-> r.ret]
    /\ accepted' = IF call.tag = "call" /\ call.ret.tag = "Some"
                   THEN <<call.ret.update>>
                   ELSE accepted
    /\ UNCHANGED <<xfVars, bookVars, execVars, infraVars, flowVars>>

BybitSpotValidate ==
    /\ sequencer.kind = "BybitSpot"
    /\ \E update \in BybitSpotOrderBookL2Update({"s1"}, SeqIds) :
           Validated(update,
                     BybitSpotOrderBookL2Sequencer_validate_sequence(sequencer.self, update))

CoinbaseValidate ==
    /\ sequencer.kind = "Coinbase"
    /\ \E update \in CoinbaseOrderBookL2Update({"s1"}, SeqIds) :
           Validated(update,
                     CoinbaseOrderBookL2Sequencer_validate_sequence(sequencer.self, update))

GateioFuturesValidate ==
    /\ sequencer.kind = "GateioFutures"
    /\ \E update \in GateioFuturesOrderBookL2Update({"s1"}, SeqIds) :
           Validated(update,
                     GateioFuturesOrderBookL2Sequencer_validate_sequence(sequencer.self, update))

KrakenValidate ==
    /\ sequencer.kind = "Kraken"
    /\ \E update \in KrakenOrderBookL2Inner({"s1"}, SeqIds) :
           Validated(update,
                     KrakenOrderBookL2Sequencer_validate_sequence(sequencer.self, update))

GateioSpotValidate ==
    /\ sequencer.kind = "GateioSpot"
    /\ \E update \in GateioSpotOrderBookL2Update({"s1"}, SeqIds) :
           Validated(update,
                     GateioSpotOrderBookL2Sequencer_validate_sequence(sequencer.self, update))

BinanceSpotValidate ==
    /\ sequencer.kind = "BinanceSpot"
    /\ \E update \in DummyUpdate(SeqIds) :
           Validated(update,
                     BinanceSpotOrderBookL2Sequencer_validate_sequence(sequencer.self, update))

KucoinSpotValidate ==
    /\ sequencer.kind = "KucoinSpot"
    /\ \E update \in KucoinOrderBookL2({"s1"}, SeqIds) :
           Validated(update,
                     KucoinSpotOrderBookL2Sequencer_validate_sequence(sequencer.self, update))

OkxValidate ==
    /\ sequencer.kind = "Okx"
    /\ \E update \in OkxOrderBookL2Update({"s1"}, {"update"}, SeqIds) :
           Validated(update,
                     OkxOrderBookL2Sequencer_validate_sequence(sequencer.self, update))

NoTransformer == [status |-> "uninit"]

SeqInit ==
    /\ \E kind \in SequencerKinds, s \in SeqIds :
           sequencer = [kind |-> kind, self |-> Sequencer_new(kind, s)]
    /\ call = NoCall
    /\ accepted = <<>>
    /\ transformer = NoTransformer
    /\ initCall = NoCall
    /\ xfCall = NoCall
    /\ NoExecution
    /\ NoInfra
    /\ NoFlow

SeqNext ==
    \/ BybitSpotValidate
    \/ CoinbaseValidate
    \/ GateioFuturesValidate
    \/ KrakenValidate
    \/ GateioSpotValidate
    \/ BinanceSpotValidate
    \/ KucoinSpotValidate
    \/ OkxValidate

SeqSpec == SeqInit /\ [][SeqNext]_vars

(***************************************************************************)
(* Transformers: init from the instrument map and the initial events, then *)
(* transform of each wire message                                          *)
(***************************************************************************)
SubIds == {"s1", "s2"}

\* ids a wire message may carry: the subscribable ones and a foreign one
WireSubIds == SubIds \cup {"s3"}

InstrumentKeys == {"k1", "k2"}

TransformerKinds == {"BybitSpot", "Coinbase", "GateioFutures", "GateioSpot", "Okx", "Kraken"}

\* Map<InstrumentKey>: a function from some subscription ids to instrument keys
InstrumentMaps == UNION {[S -> InstrumentKeys] : S \in SUBSET SubIds}

\* the orders in which into_iter may visit the entries of a hash map
IterationOrders(map) ==
    {o \in [1..Cardinality(DOMAIN map) -> DOMAIN map] :
        \A i, j \in DOMAIN o : o[i] = o[j] => i = j}

OrderBookEvent(tag, sequence) == [tag |-> tag, sequence |-> sequence]

MarketEvent(exchange, instrument, kind) ==
    [exchange |-> exchange, instrument |-> instrument, kind |-> kind]

Ok(value) == [tag |-> "Ok", value |-> value]

\* the initial events a caller may hand to init
InitialEvents(exchange) ==
    {MarketEvent(exchange, key, OrderBookEvent(tag, sequence)) :
        key \in InstrumentKeys, tag \in {"Snapshot", "Update"}, sequence \in 0..1}

InitialSnapshotLists(exchange) ==
    UNION {[1..n -> InitialEvents(exchange)] : n \in 0..MaxSnapshots}

Min(S) == CHOOSE m \in S : \A n \in S : m <= n

Meta(key, seqr) == [key |-> key, sequencer |-> seqr]

\* a plausible slip: the kind of the matching event is not looked at
InitEntry_AnyKind(kind, sub_id, instrument_key, initial_snapshots) ==
    LET matching == {i \in DOMAIN initial_snapshots :
                        initial_snapshots[i].instrument = instrument_key}
    IN IF matching = {}
       THEN Err(InitialSnapshotMissing(sub_id))
       ELSE LET snapshot == initial_snapshots[Min(matching)]
            IN Ok(Meta(instrument_key, Sequencer_new(kind, snapshot.kind.sequence)))

\* the closure init maps over the entries of the instrument map
InitEntry(kind, sub_id, instrument_key, initial_snapshots) ==
    LET matching == {i \in DOMAIN initial_snapshots :
                        initial_snapshots[i].instrument = instrument_key}
    IN IF matching = {}
       THEN Err(InitialSnapshotMissing(sub_id))
       ELSE LET snapshot == initial_snapshots[Min(matching)]
            IN IF snapshot.kind.tag # "Snapshot"
               THEN Err(InitialSnapshotInvalid)
               ELSE Ok(Meta(instrument_key, Sequencer_new(kind, snapshot.kind.sequence)))

\* collect::<Result<Map<_>, _>>() stops at the first entry, in iteration
\* order, that is an error
InitFromSnapshots(kind, instrument_map, initial_snapshots, order) ==
    LET entry(sub_id) == InitEntry(kind, sub_id, instrument_map[sub_id], initial_snapshots)
        failing == {i \in DOMAIN order : entry(order[i]).tag = "Err"}
    IN IF failing = {}
       THEN Ok([exchange |-> kind,
                instrument_map |-> [sub_id \in DOMAIN instrument_map |-> entry(sub_id).value]])
       ELSE entry(order[Min(failing)])

BybitSpotOrderBooksL2Transformer_init(instrument_map, initial_snapshots, order) ==
    InitFromSnapshots("BybitSpot", instrument_map, initial_snapshots, order)

CoinbaseOrderBooksL2Transformer_init(instrument_map, initial_snapshots, order) ==
    InitFromSnapshots("Coinbase", instrument_map, initial_snapshots, order)

GateioFuturesOrderBooksL2Transformer_init(instrument_map, initial_snapshots, order) ==
    InitFromSnapshots("GateioFutures", instrument_map, initial_snapshots, order)

GateioSpotOrderBooksL2Transformer_init(instrument_map, initial_snapshots, order) ==
    InitFromSnapshots("GateioSpot", instrument_map, initial_snapshots, order)

OkxOrderBooksL2Transformer_init(instrument_map, initial_snapshots, order) ==
    InitFromSnapshots("Okx", instrument_map, initial_snapshots, order)

\* the Kraken transformer does not read the initial events
KrakenOrderBooksL2Transformer_init(instrument_map, initial_snapshots, order) ==
    Ok([exchange |-> "Kraken",
        instrument_map |-> [sub_id \in DOMAIN instrument_map |->
                               Meta(instrument_map[sub_id],
                                    KrakenOrderBookL2Sequencer_default)]])

\* Map::find_mut: the entry of a known subscription id, else Unidentifiable
find_mut(map, sub_id) ==
    IF sub_id \in DOMAIN map THEN Ok(map[sub_id]) ELSE Err(Unidentifiable(sub_id))

\* MarketIter::from for each exchange's update
MarketIter_from_BybitSpotOrderBookL2Update(exchange, instrument, update) ==
    <<Ok(MarketEvent(exchange, instrument, OrderBookEvent("Update", update.data.sequence)))>>

MarketIter_from_CoinbaseOrderBookL2Update(exchange, instrument, update) ==
    <<Ok(MarketEvent(exchange, instrument, OrderBookEvent("Update", update.sequence)))>>

MarketIter_from_GateioFuturesOrderBookL2Update(exchange, instrument, update) ==
    <<Ok(MarketEvent(exchange, instrument, OrderBookEvent("Update", update.last_update_id)))>>

MarketIter_from_GateioSpotOrderBookL2Update(exchange, instrument, update) ==
    <<Ok(MarketEvent(exchange, instrument, OrderBookEvent("Update", update.last_update_id)))>>

MarketIter_from_OkxOrderBookL2Update(exchange, instrument, update) ==
    [i \in DOMAIN update.data |->
        Ok(MarketEvent(exchange, instrument,
                       OrderBookEvent(IF update.action = "snapshot" THEN "Snapshot"
                                      ELSE "Update",
                                      update.data[i].seq_id)))]

MarketIter_from_KrakenOrderBookL2Inner(exchange, instrument, book) ==
    <<Ok(MarketEvent(exchange, instrument, OrderBookEvent(book.tag, book.sequence)))>>

\* what the match on the sequencer's return value saw, when it was not reached
NotReached == [tag |-> "NotReached"]

\* a transform call: the transformer afterwards, the value validate_sequence
\* returned to it, and the returned list
Returned(self, validated, ret) == [self |-> self, validated |-> validated, ret |-> ret]

BybitSpotOrderBooksL2Transformer_transform(self, input) ==
    LET found == find_mut(self.instrument_map, input.subscription_id)
    IN IF found.tag = "Err"
       THEN Returned(self, NotReached, <<found>>)
       ELSE LET instrument == found.value
                r == BybitSpotOrderBookL2Sequencer_validate_sequence(instrument.sequencer, input)
                stored == [self EXCEPT !.instrument_map[input.subscription_id].sequencer = r.self]
            IN CASE r.ret.tag = "None" -> Returned(stored, r.ret, <<>>)
                 [] r.ret.tag = "Err" -> Returned(stored, r.ret, <<r.ret>>)
                 [] r.ret.tag = "Some" ->
                        Returned(stored, r.ret,
                                 MarketIter_from_BybitSpotOrderBookL2Update("BybitSpot", instrument.key, r.ret.update))

\* a plausible slip: a sequencing error is swallowed like a stale update
CoinbaseOrderBooksL2Transformer_transform_Swallow(self, input) ==
    LET found == find_mut(self.instrument_map, input.subscription_id)
    IN IF found.tag = "Err"
       THEN Returned(self, NotReached, <<found>>)
       ELSE LET instrument == found.value
                r == CoinbaseOrderBookL2Sequencer_validate_sequence(instrument.sequencer, input)
                stored == [self EXCEPT !.instrument_map[input.subscription_id].sequencer = r.self]
            IN CASE r.ret.tag = "None" -> Returned(stored, r.ret, <<>>)
                 [] r.ret.tag = "Err" -> Returned(stored, r.ret, <<>>)
                 [] r.ret.tag = "Some" ->
                        Returned(stored, r.ret,
                                 MarketIter_from_CoinbaseOrderBookL2Update("Coinbase", instrument.key, r.ret.update))

CoinbaseOrderBooksL2Transformer_transform(self, input) ==
    LET found == find_mut(self.instrument_map, input.subscription_id)
    IN IF found.tag = "Err"
       THEN Returned(self, NotReached, <<found>>)
       ELSE LET instrument == found.value
                r == CoinbaseOrderBookL2Sequencer_validate_sequence(instrument.sequencer, input)
                stored == [self EXCEPT !.instrument_map[input.subscription_id].sequencer = r.self]
            IN CASE r.ret.tag = "None" -> Returned(stored, r.ret, <<>>)
                 [] r.ret.tag = "Err" -> Returned(stored, r.ret, <<r.ret>>)
                 [] r.ret.tag = "Some" ->
                        Returned(stored, r.ret,
                                 MarketIter_from_CoinbaseOrderBookL2Update("Coinbase", instrument.key, r.ret.update))

\* events are always labelled GateioFuturesUsd::ID
GateioFuturesOrderBooksL2Transformer_transform(self, input) ==
    LET found == find_mut(self.instrument_map, input.subscription_id)
    IN IF found.tag = "Err"
       THEN Returned(self, NotReached, <<found>>)
       ELSE LET instrument == found.value
                r == GateioFuturesOrderBookL2Sequencer_validate_sequence(instrument.sequencer, input)
                stored == [self EXCEPT !.instrument_map[input.subscription_id].sequencer = r.self]
            IN CASE r.ret.tag = "None" -> Returned(stored, r.ret, <<>>)
                 [] r.ret.tag = "Err" -> Returned(stored, r.ret, <<r.ret>>)
                 [] r.ret.tag = "Some" ->
                        Returned(stored, r.ret,
                                 MarketIter_from_GateioFuturesOrderBookL2Update("GateioFuturesUsd", instrument.key, r.ret.update))

GateioSpotOrderBooksL2Transformer_transform(self, input) ==
    IF input.data.tag = "Other" THEN Returned(self, NotReached, <<>>) ELSE
    LET found == find_mut(self.instrument_map, input.data.update.subscription_id)
    IN IF found.tag = "Err"
       THEN Returned(self, NotReached, <<found>>)
       ELSE LET instrument == found.value
                r == GateioSpotOrderBookL2Sequencer_validate_sequence(instrument.sequencer, input.data.update)
                stored == [self EXCEPT !.instrument_map[input.data.update.subscription_id].sequencer = r.self]
            IN CASE r.ret.tag = "None" -> Returned(stored, r.ret, <<>>)
                 [] r.ret.tag = "Err" -> Returned(stored, r.ret, <<r.ret>>)
                 [] r.ret.tag = "Some" ->
                        Returned(stored, r.ret,
                                 MarketIter_from_GateioSpotOrderBookL2Update("GateioSpot", instrument.key, r.ret.update))

OkxOrderBooksL2Transformer_transform(self, input) ==
    LET found == find_mut(self.instrument_map, input.subscription_id)
    IN IF found.tag = "Err"
       THEN Returned(self, NotReached, <<found>>)
       ELSE LET instrument == found.value
                r == OkxOrderBookL2Sequencer_validate_sequence(instrument.sequencer, input)
                stored == [self EXCEPT !.instrument_map[input.subscription_id].sequencer = r.self]
            IN CASE r.ret.tag = "None" -> Returned(stored, r.ret, <<>>)
                 [] r.ret.tag = "Err" -> Returned(stored, r.ret, <<r.ret>>)
                 [] r.ret.tag = "Some" ->
                        Returned(stored, r.ret,
                                 MarketIter_from_OkxOrderBookL2Update("Okx", instrument.key, r.ret.update))

KrakenOrderBooksL2Transformer_transform(self, input) ==
    IF input.tag = "Event" THEN Returned(self, NotReached, <<>>) ELSE
    LET found == find_mut(self.instrument_map, input.data.subscription_id)
    IN IF found.tag = "Err"
       THEN Returned(self, NotReached, <<found>>)
       ELSE LET instrument == found.value
                r == KrakenOrderBookL2Sequencer_validate_sequence(instrument.sequencer, input.data)
                stored == [self EXCEPT !.instrument_map[input.data.subscription_id].sequencer = r.self]
            IN CASE r.ret.tag = "None" -> Returned(stored, r.ret, <<>>)
                 [] r.ret.tag = "Err" -> Returned(stored, r.ret, <<r.ret>>)
                 [] r.ret.tag = "Some" ->
                        Returned(stored, r.ret,
                                 MarketIter_from_KrakenOrderBookL2Inner("Kraken", instrument.key, r.ret.update))

(***************************************************************************)
(* Wire messages of each transformer                                       *)
(***************************************************************************)
GateioSpotOrderBookL2(subs, ids) ==
    {[data |-> [tag |-> "Other"]]}
        \cup {[data |-> [tag |-> "Update", update |-> u]] :
                 u \in GateioSpotOrderBookL2Update(subs, ids)}

KrakenOrderBookL2(subs, ids) ==
    {[tag |-> "Event"]}
        \cup {[tag |-> "Data", data |-> d] : d \in KrakenOrderBookL2Inner(subs, ids)}

\* the subscription id a wire message names; a control frame names none
WireSub(kind, input) ==
    CASE kind = "GateioSpot" ->
             IF input.data.tag = "Other" THEN "none" ELSE input.data.update.subscription_id
      [] kind = "Kraken" ->
             IF input.tag = "Event" THEN "none" ELSE input.data.subscription_id
      [] OTHER -> input.subscription_id

(***************************************************************************)
(* A transformer: init once, then transform any wire messages.             *)
(* initCall is the init call (arguments, iteration order, returned value)  *)
(* while nothing has been transformed yet; xfCall is the latest transform  *)
(* call: the message, the transformer before it, what validate_sequence    *)
(* returned, the returned list, and after_error: whether the call before   *)
(* it reported a sequencing error for the same subscription.               *)
(***************************************************************************)
Initialised(kind, instrument_map, initial_snapshots, order, r) ==
    /\ transformer' = IF r.tag = "Ok"
                      THEN [status |-> "ready", kind |-> kind, self |-> r.value]
                      ELSE [status |-> "failed", kind |-> kind]
    /\ initCall' = [tag |-> "call", kind |-> kind, instrument_map |-> instrument_map,
                    initial_snapshots |-> initial_snapshots, order |-> order, ret |-> r]
    /\ xfCall' = NoCall
    /\ UNCHANGED <<seqVars, bookVars, execVars, infraVars, flowVars>>

\* the call c reported a sequencing error for the subscription sub_id
FailedFor(c, sub_id) == c.tag = "call" /\ c.validated.tag = "Err" /\ c.sub_id = sub_id

Transformed(input, r) ==
    /\ \A sub_id \in DOMAIN r.self.instrument_map :
           ProcessedWithinCap(r.self.instrument_map[sub_id].sequencer)
    /\ transformer' = [transformer EXCEPT !.self = r.self]
    /\ xfCall' = [tag |-> "call", input |-> input,
                  sub_id |-> WireSub(transformer.kind, input),
                  pre |-> transformer.self, validated |-> r.validated, ret |-> r.ret,
                  after_error |-> FailedFor(xfCall, WireSub(transformer.kind, input))]
    /\ initCall' = NoCall
    /\ UNCHANGED <<seqVars, bookVars, execVars, infraVars, flowVars>>

BybitSpotInit ==
    /\ transformer.status = "uninit"
    /\ \E instrument_map \in InstrumentMaps :
       \E initial_snapshots \in InitialSnapshotLists("BybitSpot"), order \in IterationOrders(instrument_map) :
           Initialised("BybitSpot", instrument_map, initial_snapshots, order,
                       BybitSpotOrderBooksL2Transformer_init(instrument_map, initial_snapshots, order))

CoinbaseInit ==
    /\ transformer.status = "uninit"
    /\ \E instrument_map \in InstrumentMaps :
       \E initial_snapshots \in InitialSnapshotLists("Coinbase"), order \in IterationOrders(instrument_map) :
           Initialised("Coinbase", instrument_map, initial_snapshots, order,
                       CoinbaseOrderBooksL2Transformer_init(instrument_map, initial_snapshots, order))

GateioFuturesInit ==
    /\ transformer.status = "uninit"
    /\ \E instrument_map \in InstrumentMaps :
       \E initial_snapshots \in InitialSnapshotLists("GateioFutures"), order \in IterationOrders(instrument_map) :
           Initialised("GateioFutures", instrument_map, initial_snapshots, order,
                       GateioFuturesOrderBooksL2Transformer_init(instrument_map, initial_snapshots, order))

GateioSpotInit ==
    /\ transformer.status = "uninit"
    /\ \E instrument_map \in InstrumentMaps :
       \E initial_snapshots \in InitialSnapshotLists("GateioSpot"), order \in IterationOrders(instrument_map) :
           Initialised("GateioSpot", instrument_map, initial_snapshots, order,
                       GateioSpotOrderBooksL2Transformer_init(instrument_map, initial_snapshots, order))

OkxInit ==
    /\ transformer.status = "uninit"
    /\ \E instrument_map \in InstrumentMaps :
       \E initial_snapshots \in InitialSnapshotLists("Okx"), order \in IterationOrders(instrument_map) :
           Initialised("Okx", instrument_map, initial_snapshots, order,
                       OkxOrderBooksL2Transformer_init(instrument_map, initial_snapshots, order))

KrakenInit ==
    /\ transformer.status = "uninit"
    /\ \E instrument_map \in InstrumentMaps :
       \E initial_snapshots \in InitialSnapshotLists("Kraken"), order \in IterationOrders(instrument_map) :
           Initialised("Kraken", instrument_map, initial_snapshots, order,
                       KrakenOrderBooksL2Transformer_init(instrument_map, initial_snapshots, order))

BybitSpotTransform ==
    /\ transformer.status = "ready"
    /\ transformer.kind = "BybitSpot"
    /\ \E input \in BybitSpotOrderBookL2Update(WireSubIds, XfSeqIds) :
           Transformed(input, BybitSpotOrderBooksL2Transformer_transform(transformer.self, input))

CoinbaseTransform ==
    /\ transformer.status = "ready"
    /\ transformer.kind = "Coinbase"
    /\ \E input \in CoinbaseOrderBookL2Update(WireSubIds, XfSeqIds) :
           Transformed(input, CoinbaseOrderBooksL2Transformer_transform(transformer.self, input))

GateioFuturesTransform ==
    /\ transformer.status = "ready"
    /\ transformer.kind = "GateioFutures"
    /\ \E input \in GateioFuturesOrderBookL2Update(WireSubIds, XfSeqIds) :
           Transformed(input, GateioFuturesOrderBooksL2Transformer_transform(transformer.self, input))

GateioSpotTransform ==
    /\ transformer.status = "ready"
    /\ transformer.kind = "GateioSpot"
    /\ \E input \in GateioSpotOrderBookL2(WireSubIds, XfSeqIds) :
           Transformed(input, GateioSpotOrderBooksL2Transformer_transform(transformer.self, input))

OkxTransform ==
    /\ transformer.status = "ready"
    /\ transformer.kind = "Okx"
    /\ \E input \in OkxOrderBookL2Update(WireSubIds, {"snapshot", "update"}, XfSeqIds) :
           Transformed(input, OkxOrderBooksL2Transformer_transform(transformer.self, input))

KrakenTransform ==
    /\ transformer.status = "ready"
    /\ transformer.kind = "Kraken"
    /\ \E input \in KrakenOrderBookL2(WireSubIds, XfSeqIds) :
           Transformed(input, KrakenOrderBooksL2Transformer_transform(transformer.self, input))

XfInit ==
    /\ sequencer = [kind |-> "BybitSpot", self |-> BybitSpotOrderBookL2Sequencer_new(0)]
    /\ call = NoCall
    /\ accepted = <<>>
    /\ transformer = NoTransformer
    /\ initCall = NoCall
    /\ xfCall = NoCall
    /\ NoExecution
    /\ NoInfra
    /\ NoFlow

XfNext ==
    \/ BybitSpotInit
    \/ CoinbaseInit
    \/ GateioFuturesInit
    \/ GateioSpotInit
    \/ OkxInit
    \/ KrakenInit
    \/ BybitSpotTransform
    \/ CoinbaseTransform
    \/ GateioFuturesTransform
    \/ GateioSpotTransform
    \/ OkxTransform
    \/ KrakenTransform

XfSpec == XfInit /\ [][XfNext]_vars

(***************************************************************************)
(* Reading a sequencer and an update by dialect                            *)
(***************************************************************************)
\* the last sequence a sequencer holds
LastOf(kind, self) ==
    CASE kind \in {"BybitSpot", "Kraken"} -> self.last_sequence
      [] kind = "Coinbase" -> self.sequence
      [] kind \in {"GateioFutures", "GateioSpot", "BinanceSpot", "KucoinSpot"} ->
             self.last_update_id
      [] kind = "Okx" -> self.last_seq_id

\* the (last) sequence an update carries; an OKX update without data carries none
HasSequence(kind, update) == kind = "Okx" => update.data # <<>>

UpdLast(kind, update) ==
    CASE kind = "BybitSpot" -> update.data.sequence
      [] kind \in {"Coinbase", "Kraken"} -> update.sequence
      [] kind \in {"GateioFutures", "GateioSpot"} -> update.last_update_id
      [] kind = "BinanceSpot" -> DummyUpdate_last_update_id(update)
      [] kind = "KucoinSpot" -> KucoinOrderBookL2_last_update_id(update)
      [] kind = "Okx" -> Head(update.data).seq_id

\* the first update id of a pair-ID update
UpdFirst(kind, update) ==
    CASE kind = "GateioSpot" -> update.first_update_id
      [] kind = "BinanceSpot" -> DummyUpdate_first_update_id(update)
      [] kind = "KucoinSpot" -> KucoinOrderBookL2_first_update_id(update)

Called == call.tag = "call"

Accepted == Called /\ call.ret.tag = "Some"

Dropped == Called /\ call.ret.tag = "None"

Failed == Called /\ call.ret.tag = "Err"

(***************************************************************************)
(* Claims about the sequencers                                             *)
(***************************************************************************)
\* C1: Bybit spot and Coinbase: with last sequence L before the call,
\* validate_sequence returns Ok(None) when update.sequence <= L, returns
\* Ok(Some(update)) and stores update.sequence when it is L+1, and returns
\* Err(InvalidSequence{prev_last_update_id: L, first_update_id: sequence})
\* when it is greater than L+1.
C1_SingleIdRule ==
    (Called /\ sequencer.kind \in {"BybitSpot", "Coinbase"}) =>
        LET L == LastOf(sequencer.kind, call.pre)
            seq == UpdLast(sequencer.kind, call.update)
        IN /\ seq <= L => call.ret = OkNone
           /\ seq = L + 1 => /\ call.ret = OkSome(call.update)
                             /\ LastOf(sequencer.kind, sequencer.self) = seq
           /\ seq > L + 1 => call.ret = Err(InvalidSequence(L, seq))

\* a Bybit sequencer that accepted an update earlier has just reported a gap
C1_Witness ==
    /\ sequencer.kind = "BybitSpot"
    /\ Failed
    /\ accepted # <<>>
    /\ UpdLast("BybitSpot", call.update) > call.pre.last_sequence + 1

\* C2 as claimed: for Bybit spot, Coinbase and Gate.io futures every accepted
\* update has the sequence last+1 and becomes the last sequence, and an
\* update that skips ahead is never accepted.
C2_SingleIdNoSkip_Claimed ==
    (Called /\ sequencer.kind \in {"BybitSpot", "Coinbase", "GateioFutures"}) =>
        LET L == LastOf(sequencer.kind, call.pre)
            seq == UpdLast(sequencer.kind, call.update)
        IN /\ Accepted => /\ seq = L + 1
                          /\ LastOf(sequencer.kind, sequencer.self) = seq
           /\ seq > L + 1 => ~Accepted

\* C2 amended: Bybit spot and Coinbase accept exactly the update with the
\* sequence last+1; the Gate.io futures sequencer accepts every update whose
\* id is greater than its last id, a skip ahead included; in all three an
\* accepted update's sequence becomes the last sequence.
C2_SingleIdAccept ==
    (Called /\ sequencer.kind \in {"BybitSpot", "Coinbase", "GateioFutures"}) =>
        LET L == LastOf(sequencer.kind, call.pre)
            seq == UpdLast(sequencer.kind, call.update)
        IN /\ Accepted => LastOf(sequencer.kind, sequencer.self) = seq
           /\ sequencer.kind \in {"BybitSpot", "Coinbase"} => (Accepted <=> seq = L + 1)
           /\ sequencer.kind = "GateioFutures" => (Accepted <=> seq > L)

\* the Gate.io futures sequencer has accepted an update that skips ahead
C2_Witness ==
    /\ sequencer.kind = "GateioFutures"
    /\ Accepted
    /\ call.update.last_update_id > call.pre.last_update_id + 1
    /\ sequencer.self.last_update_id = call.update.last_update_id

\* C3: pair-ID sequencers (Gate.io spot, the generic Binance sequencer,
\* Kucoin spot): two consecutive accepted updates (a, b) satisfy
\* b.first_update_id = a.last_update_id + 1.
C3_PairIdChain ==
    (Accepted /\ sequencer.kind \in PairIdKinds /\ accepted # <<>>) =>
        UpdFirst(sequencer.kind, call.update) = UpdLast(sequencer.kind, accepted[1]) + 1

\* C4: generic Binance sequencer: once an update a has been accepted, the
\* next update b with b.first_update_id = a.last_update_id + 1 is accepted
\* and last_update_id becomes b.last_update_id (from snapshot 100:
\* {U:99,u:101} then {U:102,u:110} are accepted).
C4_BinanceNextAccepted ==
    (/\ Called
     /\ sequencer.kind = "BinanceSpot"
     /\ accepted # <<>>
     /\ accepted[1].last = call.pre.last_update_id
     /\ call.update.first = accepted[1].last + 1) =>
        /\ call.ret = OkSome(call.update)
        /\ sequencer.self.last_update_id = call.update.last

C6_StaleIsDropped ==
    (/\ Called
     /\ HasSequence(sequencer.kind, call.update)
     /\ UpdLast(sequencer.kind, call.update) <= LastOf(sequencer.kind, call.pre)) =>
        /\ call.ret = OkNone
        /\ sequencer.self = call.pre

\* C7 as claimed: the OKX sequencer accepts an update exactly if its
\* prev_seq_id equals last_seq_id and then stores seq_id; an update with
\* seq_id < last_seq_id is dropped; every other update fails with
\* InvalidSequence and leaves last_seq_id unchanged.
C7_OkxRule_Claimed ==
    (Called /\ sequencer.kind = "Okx" /\ call.update.data # <<>>) =>
        LET data == Head(call.update.data)
            last == call.pre.last_seq_id
        IN /\ Accepted <=> data.prev_seq_id = last
           /\ Accepted => sequencer.self.last_seq_id = data.seq_id
           /\ data.seq_id < last => Dropped
           /\ (~Accepted /\ ~(data.seq_id < last)) =>
                  (Failed /\ sequencer.self.last_seq_id = last)

\* C7 amended: the OKX sequencer drops (Ok(None), state unchanged) an update
\* without data or with seq_id < last_seq_id, whatever its prev_seq_id;
\* otherwise it accepts the update exactly if prev_seq_id = last_seq_id,
\* stores seq_id and returns the update with its first data entry only;
\* every other update fails with
\* InvalidSequence{prev_last_update_id: last_seq_id, first_update_id: prev_seq_id}
\* and changes nothing.
C7_OkxRule ==
    (Called /\ sequencer.kind = "Okx") =>
        IF call.update.data = <<>>
        THEN Dropped /\ sequencer.self = call.pre
        ELSE LET data == Head(call.update.data)
                 last == call.pre.last_seq_id
             IN /\ Accepted <=> (data.seq_id >= last /\ data.prev_seq_id = last)
                /\ Accepted =>
                       /\ sequencer.self.last_seq_id = data.seq_id
                       /\ sequencer.self.updates_processed = call.pre.updates_processed + 1
                       /\ call.ret.update = [call.update EXCEPT !.data = <<data>>]
                /\ Dropped <=> data.seq_id < last
                /\ Dropped => sequencer.self = call.pre
                /\ Failed =>
                       /\ call.ret = Err(InvalidSequence(last, data.prev_seq_id))
                       /\ sequencer.self = call.pre

\* an update chained to the last sequence was dropped because its own
\* seq_id is older
C7_Witness ==
    /\ sequencer.kind = "Okx"
    /\ Dropped
    /\ call.update.data # <<>>
    /\ Head(call.update.data).prev_seq_id = call.pre.last_seq_id
    /\ Head(call.update.data).seq_id < call.pre.last_seq_id

(***************************************************************************)
(* Claims about the transformers                                           *)
(***************************************************************************)
Transformed_ == xfCall.tag = "call"

\* the sequencer the transformer holds for a subscription
SequencerOf(self, sub_id) == self.instrument_map[sub_id].sequencer

\* C8: a validate_sequence call that fails with InvalidSequence changes no
\* sequencer state, the transformer returns it as a single per-item error,
\* and the transformer keeps running: the update carrying the expected next
\* sequence for that subscription (last+1 in the single-ID dialect) is
\* accepted when it comes right after the failure.
C8_ErrorKeepsStateAndStream ==
    /\ (Transformed_ /\ xfCall.validated.tag = "Err") =>
           /\ transformer.self = xfCall.pre
           /\ xfCall.validated.error.kind = "InvalidSequence"
           /\ xfCall.ret = <<xfCall.validated>>
    /\ (/\ Transformed_
        /\ xfCall.after_error
        /\ transformer.kind \in {"BybitSpot", "Coinbase"}
        /\ UpdLast(transformer.kind, xfCall.input)
               = LastOf(transformer.kind, SequencerOf(xfCall.pre, xfCall.sub_id)) + 1) =>
           /\ xfCall.validated = OkSome(xfCall.input)
           /\ Len(xfCall.ret) = 1
           /\ xfCall.ret[1].tag = "Ok"
           /\ LastOf(transformer.kind, SequencerOf(transformer.self, xfCall.sub_id))
                  = UpdLast(transformer.kind, xfCall.input)

\* a Bybit update was accepted right after a gap was reported for its subscription
C8_Witness ==
    /\ Transformed_
    /\ transformer.kind = "BybitSpot"
    /\ xfCall.after_error
    /\ xfCall.validated.tag = "Some"
    /\ Len(xfCall.ret) = 1

Initialising == initCall.tag = "call"

\* the initial events of a subscription's instrument, by position
MatchingEvents(c, sub_id) ==
    {i \in DOMAIN c.initial_snapshots :
        c.initial_snapshots[i].instrument = c.instrument_map[sub_id]}

\* the initial event init reads for a subscription: the first one of its instrument
InitialEventOf(c, sub_id) == c.initial_snapshots[Min(MatchingEvents(c, sub_id))]

HasSnapshot(c, sub_id) ==
    /\ MatchingEvents(c, sub_id) # {}
    /\ InitialEventOf(c, sub_id).kind.tag = "Snapshot"

\* the subscription whose entry init rejected: the first one, in the order
\* the map is iterated, without an initial snapshot
FirstRejected(c) ==
    c.order[Min({i \in DOMAIN c.order : ~HasSnapshot(c, c.order[i])})]

\* C9 as claimed: init of every L2 order-book transformer succeeds only if
\* every subscription of the instrument map has a matching initial event of
\* kind Snapshot.
C9_InitNeedsSnapshots_Claimed ==
    (Initialising /\ initCall.ret.tag = "Ok") =>
        \A sub_id \in DOMAIN initCall.instrument_map : HasSnapshot(initCall, sub_id)

\* C9 amended: init of the Bybit spot, Coinbase, Gate.io spot, Gate.io
\* futures and OKX transformers succeeds exactly if every subscription of
\* the instrument map has an initial event for its instrument and the first
\* such event is a Snapshot; then each subscription's sequencer starts at
\* that snapshot's sequence.  Otherwise init fails for the first
\* subscription, in the map's iteration order, that has none: with
\* InitialSnapshotMissing(sub_id) if no event matches, with
\* InitialSnapshotInvalid if the event is an Update.  The Kraken
\* transformer, whose snapshot arrives on the WebSocket, does not read the
\* initial events: its init always succeeds and each sequencer starts at 0.
C9_InitNeedsSnapshots ==
    Initialising =>
        LET c == initCall
            subs == DOMAIN c.instrument_map
        IN IF c.kind = "Kraken"
           THEN /\ c.ret.tag = "Ok"
                /\ \A sub_id \in subs :
                       c.ret.value.instrument_map[sub_id]
                           = Meta(c.instrument_map[sub_id], KrakenOrderBookL2Sequencer_new(0))
           ELSE /\ c.ret.tag = "Ok" <=> \A sub_id \in subs : HasSnapshot(c, sub_id)
                /\ c.ret.tag = "Ok" =>
                       /\ transformer.status = "ready"
                       /\ DOMAIN transformer.self.instrument_map = subs
                       /\ \A sub_id \in subs :
                              transformer.self.instrument_map[sub_id]
                                  = Meta(c.instrument_map[sub_id],
                                         Sequencer_new(c.kind,
                                                       InitialEventOf(c, sub_id).kind.sequence))
                /\ c.ret.tag # "Ok" =>
                       /\ transformer.status = "failed"
                       /\ LET sub_id == FirstRejected(c)
                          IN IF MatchingEvents(c, sub_id) = {}
                             THEN c.ret = Err(InitialSnapshotMissing(sub_id))
                             ELSE c.ret = Err(InitialSnapshotInvalid)

\* init failed with InitialSnapshotInvalid for a subscription whose first
\* initial event is an Update, although a Snapshot follows it
C9_Witness ==
    /\ Initialising
    /\ initCall.kind = "Okx"
    /\ initCall.ret = Err(InitialSnapshotInvalid)
    /\ \E sub_id \in DOMAIN initCall.instrument_map :
           /\ MatchingEvents(initCall, sub_id) # {}
           /\ InitialEventOf(initCall, sub_id).kind.tag = "Update"

\* C10: transform maps a message to its output list by the sequencer
\* outcome only: an unknown subscription id yields exactly one error
\* (Unidentifiable) and touches no sequencer; a dropped update yields the
\* empty list; a failed update yields exactly one error; an accepted update
\* yields at least one MarketEvent of that subscription's instrument and no
\* error.  No call touches the sequencer of another subscription.
C10_TransformByOutcome ==
    (Transformed_ /\ xfCall.sub_id # "none") =>
        LET sub_id == xfCall.sub_id
            pre == xfCall.pre
        IN IF sub_id \notin DOMAIN pre.instrument_map
           THEN /\ xfCall.ret = <<Err(Unidentifiable(sub_id))>>
                /\ xfCall.validated = NotReached
                /\ transformer.self = pre
           ELSE /\ xfCall.validated.tag \in {"None", "Err", "Some"}
                /\ xfCall.validated.tag = "None" => xfCall.ret = <<>>
                /\ xfCall.validated.tag = "Err" =>
                       /\ Len(xfCall.ret) = 1
                       /\ xfCall.ret[1] = xfCall.validated
                /\ xfCall.validated.tag = "Some" =>
                       /\ Len(xfCall.ret) >= 1
                       /\ \A i \in DOMAIN xfCall.ret :
                              /\ xfCall.ret[i].tag = "Ok"
                              /\ xfCall.ret[i].value.instrument = pre.instrument_map[sub_id].key
                \* the outcome is the one the sequencer's state shows
                /\ xfCall.validated.tag = "Some" <=>
                       SequencerOf(transformer.self, sub_id) # SequencerOf(pre, sub_id)
                /\ \A other \in DOMAIN pre.instrument_map \ {sub_id} :
                       transformer.self.instrument_map[other] = pre.instrument_map[other]
                /\ DOMAIN transformer.self.instrument_map = DOMAIN pre.instrument_map

\* a transformer with two subscriptions turned an accepted Gate.io spot
\* update into one event
C10_Witness ==
    /\ Transformed_
    /\ transformer.kind = "GateioSpot"
    /\ Cardinality(DOMAIN xfCall.pre.instrument_map) = 2
    /\ xfCall.validated.tag = "Some"
    /\ Len(xfCall.ret) = 1
    /\ xfCall.ret[1].tag = "Ok"

(***************************************************************************)
(* Order book (spec 4.2).  A side is a sequence of levels, best first.     *)
(* The implementation of OrderBook is not part of the sources at hand; new *)
(* and apply follow the specification's description of them.               *)
(***************************************************************************)
\* largest price and amount of a level fed to an order book
MaxBookPrice == 2

MaxBookAmount == 1

\* most levels in one event, both sides together
MaxBookLevels == 2

\* largest sequence number of an order-book event
MaxBookSeq == 1

Level(price, amount) == [price |-> price, amount |-> amount]

\* the sequences of at most n levels over the given prices and amounts
LevelLists(prices, amounts, n) ==
    UNION {[1..k -> {Level(p, a) : p \in prices, a \in amounts}] : k \in 0..n}

RECURSIVE AmountAt(_, _)
\* the sum of the amounts of the levels at a price
AmountAt(levels, price) ==
    IF levels = <<>> THEN 0
    ELSE (IF Head(levels).price = price THEN Head(levels).amount ELSE 0)
         + AmountAt(Tail(levels), price)

\* price a comes before price b on a side: descending for bids, ascending
\* for asks
Better(side, a, b) == IF side = "bids" THEN a > b ELSE a < b

RECURSIVE BestFirst(_, _)
\* a set of prices as a sequence, best first
BestFirst(side, prices) ==
    IF prices = {} THEN <<>>
    ELSE LET best == CHOOSE p \in prices : \A q \in prices \ {p} : Better(side, p, q)
         IN  <<best>> \o BestFirst(side, prices \ {best})

\* new: sort the levels, collapse duplicate prices by summing, drop
\* zero-amount entries
OrderBookSide_new(side, levels) ==
    LET live == {p \in {levels[i].price : i \in DOMAIN levels} : AmountAt(levels, p) # 0}
        order == BestFirst(side, live)
    IN  [i \in DOMAIN order |-> Level(order[i], AmountAt(levels, order[i]))]

OrderBook_new(sequence, bids, asks) ==
    [sequence |-> sequence,
     bids |-> OrderBookSide_new("bids", bids),
     asks |-> OrderBookSide_new("asks", asks)]

\* one level of an update: amount zero removes the level, a repeated price
\* is updated in place, a new price is inserted at its sorted position
OrderBookSide_upsert_single(side, levels, level) ==
    IF level.amount = 0
    THEN SelectSeq(levels, LAMBDA l : l.price # level.price)
    ELSE IF \E i \in DOMAIN levels : levels[i].price = level.price
    THEN [i \in DOMAIN levels |->
             IF levels[i].price = level.price THEN level ELSE levels[i]]
    ELSE SelectSeq(levels, LAMBDA l : Better(side, l.price, level.price))
         \o <<level>>
         \o SelectSeq(levels, LAMBDA l : ~Better(side, l.price, level.price))

RECURSIVE OrderBookSide_upsert(_, _, _)
OrderBookSide_upsert(side, levels, updates) ==
    IF updates = <<>> THEN levels
    ELSE OrderBookSide_upsert(side,
                              OrderBookSide_upsert_single(side, levels, Head(updates)),
                              Tail(updates))

\* apply: a Snapshot replaces the book, an Update merges level by level; the
\* sequence is the event's
OrderBook_apply(self, event) ==
    IF event.tag = "Snapshot"
    THEN OrderBook_new(event.sequence, event.bids, event.asks)
    ELSE [sequence |-> event.sequence,
          bids |-> OrderBookSide_upsert("bids", self.bids, event.bids),
          asks |-> OrderBookSide_upsert("asks", self.asks, event.asks)]

BookLevelLists == LevelLists(1..MaxBookPrice, 0..MaxBookAmount, MaxBookLevels)

\* the events an order book is fed: OrderBookEvent::Snapshot, ::Update
OrderBookEvents ==
    {event \in [tag : {"Snapshot", "Update"}, sequence : 0..MaxBookSeq,
                bids : BookLevelLists, asks : BookLevelLists] :
        Len(event.bids) + Len(event.asks) <= MaxBookLevels}

\* orderBook: the book and the event applied last
Apply ==
    \E event \in OrderBookEvents :
        /\ orderBook' = [self |-> OrderBook_apply(orderBook.self, event), event |-> event]
        /\ UNCHANGED <<seqVars, xfVars, execVars, infraVars, flowVars>>

NoSequencing ==
    /\ sequencer = Absent
    /\ call = NoCall
    /\ accepted = <<>>
    /\ transformer = NoTransformer
    /\ initCall = NoCall
    /\ xfCall = NoCall

BookInit ==
    /\ \E bids \in BookLevelLists, asks \in BookLevelLists :
           /\ Len(bids) + Len(asks) <= MaxBookLevels
           /\ orderBook = [self |-> OrderBook_new(0, bids, asks), event |-> Absent]
    /\ engine = Absent
    /\ twin = Absent
    /\ client = Absent
    /\ monitor = Absent
    /\ NoSequencing
    /\ NoInfra
    /\ NoFlow

BookNext == Apply

BookSpec == BookInit /\ [][BookNext]_vars

(***************************************************************************)
(* Claims about the order book                                             *)
(***************************************************************************)
StrictlyOrdered(side, levels) ==
    \A i, j \in DOMAIN levels : i < j => Better(side, levels[i].price, levels[j].price)

NoEmptyLevel(levels) == \A i \in DOMAIN levels : levels[i].amount # 0

NotCrossed(self) ==
    self.bids # <<>> /\ self.asks # <<>> => self.bids[1].price < self.asks[1].price

Applied == orderBook # Absent /\ orderBook.event # Absent

\* C11 as claimed: after any sequence of Snapshot and Update events the bids
\* are strictly descending by price, the asks strictly ascending, no level
\* has amount 0 and the best bid is below the best ask
C11_BookInvariant ==
    Applied =>
        /\ StrictlyOrdered("bids", orderBook.self.bids)
        /\ StrictlyOrdered("asks", orderBook.self.asks)
        /\ NoEmptyLevel(orderBook.self.bids)
        /\ NoEmptyLevel(orderBook.self.asks)
        /\ NotCrossed(orderBook.self)

(***************************************************************************)
(* Decimal: a fixed-point number, here with DecimalDigits fractional       *)
(* digits (rust_decimal keeps 28).  A Decimal is the integer count of its  *)
(* smallest unit; a product or quotient that needs more digits is rounded  *)
(* to the nearest unit.                                                    *)
(***************************************************************************)
DecimalDigits == 1

Unit == 10 ^ DecimalDigits

\* dec!(n)
Dec(n) == n * Unit

\* a / b rounded to the nearest integer, for a >= 0 and b > 0
RoundDiv(a, b) == (2 * a + b) \div (2 * b)

Decimal_mul(a, b) == RoundDiv(a * b, Unit)

Decimal_div(a, b) == RoundDiv(a * Unit, b)

Decimal_abs(a) == IF a < 0 THEN 0 - a ELSE a

\* a minimum that always answers its second argument
Decimal_min_Second(a, b) == b

Decimal_min(a, b) == IF a <= b THEN a ELSE b

(***************************************************************************)
(* PaperBook                                                               *)
(***************************************************************************)
RECURSIVE sort_by(_, _)
\* Vec::sort_by (stable) on the price: descending for bids, ascending for asks
sort_by(side, levels) ==
    IF levels = <<>> THEN <<>>
    ELSE LET rest == sort_by(side, Tail(levels))
             lvl == Head(levels)
         IN  SelectSeq(rest, LAMBDA l : Better(side, l.price, lvl.price))
             \o <<lvl>>
             \o SelectSeq(rest, LAMBDA l : ~Better(side, l.price, lvl.price))

PaperBook_new(bids, asks) ==
    [bids |-> sort_by("bids", bids), asks |-> sort_by("asks", asks)]

RECURSIVE PaperBook_fill_market_Keep(_, _, _, _)
\* the loop of fill_market without the removal of an exhausted level other
\* than by skipping it
PaperBook_fill_market_Keep(levels, quantity, total_value, filled) ==
    IF quantity > 0 /\ levels # <<>>
    THEN LET lvl == levels[1]
             trade_qty == Decimal_min(quantity, lvl.amount)
             walked == PaperBook_fill_market_Keep(Tail(levels), quantity - trade_qty,
                                                  total_value + Decimal_mul(trade_qty, lvl.price),
                                                  filled + trade_qty)
         IN  [walked EXCEPT !.levels = <<Level(lvl.price, lvl.amount - trade_qty)>> \o @]
    ELSE [levels |-> levels, total_value |-> total_value, filled |-> filled]

RECURSIVE PaperBook_fill_market_loop(_, _, _, _)
\* the while loop of fill_market over the side it consumes
PaperBook_fill_market_loop(levels, quantity, total_value, filled) ==
    IF quantity > 0 /\ levels # <<>>
    THEN LET lvl == levels[1]
             trade_qty == Decimal_min(quantity, lvl.amount)
             amount == lvl.amount - trade_qty
         IN  PaperBook_fill_market_loop(
                 IF amount <= 0 THEN Tail(levels)
                 ELSE <<Level(lvl.price, amount)>> \o Tail(levels),
                 quantity - trade_qty,
                 total_value + Decimal_mul(trade_qty, lvl.price),
                 filled + trade_qty)
    ELSE [levels |-> levels, total_value |-> total_value, filled |-> filled]

PaperBook_fill_market(self, side, quantity) ==
    LET walked == PaperBook_fill_market_loop(IF side = "Buy" THEN self.asks ELSE self.bids,
                                             quantity, 0, 0)
        avg_price == IF walked.filled > 0
                     THEN Decimal_div(walked.total_value, walked.filled)
                     ELSE 0
    IN  [self |-> IF side = "Buy" THEN [self EXCEPT !.asks = walked.levels]
                  ELSE [self EXCEPT !.bids = walked.levels],
         ret |-> [filled |-> walked.filled, avg_price |-> avg_price]]

(***************************************************************************)
(* PaperEngine                                                             *)
(***************************************************************************)
RECURSIVE to_smolstr(_)
\* u64 to its decimal digits
to_smolstr(n) ==
    IF n < 10 THEN <<n>> ELSE to_smolstr(n \div 10) \o <<n % 10>>

\* AccountState::from(snapshot): the balances by asset
AccountState_from(snapshot) ==
    [balances |-> [asset \in {snapshot.balances[i].asset : i \in DOMAIN snapshot.balances} |->
                      LET i == CHOOSE i \in DOMAIN snapshot.balances :
                                   snapshot.balances[i].asset = asset
                      IN  snapshot.balances[i]],
     trades |-> <<>>]

PaperEngine_new(exchange, fees_percent, instruments, books, snapshot) ==
    [exchange |-> exchange,
     fees_percent |-> fees_percent,
     instruments |-> instruments,
     books |-> books,
     account |-> AccountState_from(snapshot),
     order_sequence |-> 0]

Rejected(api_error) == [kind |-> "Rejected", api |-> api_error]

OrderRejected == [kind |-> "OrderRejected", message |-> "PaperEngine only supports Market orders"]

InstrumentInvalid(instrument, message) ==
    [kind |-> "InstrumentInvalid", instrument |-> instrument, message |-> message]

BalanceInsufficient(asset, free, required) ==
    [kind |-> "BalanceInsufficient", asset |-> asset, free |-> free, required |-> required]

\* an error response that does not carry the request's price
build_open_order_err_response_NoPrice(request, error) ==
    [key |-> request.key,
     side |-> request.state.side,
     price |-> 0,
     quantity |-> request.state.quantity,
     kind |-> request.state.kind,
     time_in_force |-> request.state.time_in_force,
     state |-> Err(error)]

build_open_order_err_response(request, error) ==
    [key |-> request.key,
     side |-> request.state.side,
     price |-> request.state.price,
     quantity |-> request.state.quantity,
     kind |-> request.state.kind,
     time_in_force |-> request.state.time_in_force,
     state |-> Err(error)]

\* order_id_sequence_fetch_add that does not advance the sequence
PaperEngine_order_id_sequence_fetch_add_NoAdd(self) ==
    [self |-> self, ret |-> to_smolstr(self.order_sequence)]

\* order_id_sequence_fetch_add
PaperEngine_order_id_sequence_fetch_add(self) ==
    [self |-> [self EXCEPT !.order_sequence = @ + 1],
     ret |-> to_smolstr(self.order_sequence)]

\* what open_order returns: the order and Option<OpenOrderNotifications>,
\* with the engine after the call and the result of fill_market (NotReached
\* when the request was refused before matching)
Opened(self, fill, order, notifications) ==
    [self |-> self, fill |-> fill, ret |-> [order |-> order, notifications |-> notifications]]

\* the balance an order needs without its fees
Required_NoFees(order_value, fees_percent) == order_value

\* the balance an order needs: its value and the fees on it
Required(order_value, fees_percent) ==
    order_value + Decimal_mul(order_value, fees_percent)

\* an open state whose id is taken from the clock
Open_IdFromClock(order_id, now, filled_qty) ==
    [id |-> to_smolstr(now), time_exchange |-> now, filled_quantity |-> filled_qty]

\* order::state::Open
Open(order_id, now, filled_qty) ==
    [id |-> order_id, time_exchange |-> now, filled_quantity |-> filled_qty]

\* open_order from the balance update on: self is the engine after
\* fill_market, now the value of Utc::now()
PaperEngine_open_order_settle(self, request, fill, now) ==
    LET filled_qty == fill.filled
        avg_price == fill.avg_price
        underlying == self.instruments[request.key.instrument].underlying
        current == self.account.balances[underlying.quote]
        order_value == IF request.state.side = "Buy"
                       THEN Decimal_mul(avg_price, filled_qty)
                       ELSE filled_qty
        order_fees == Decimal_mul(order_value, self.fees_percent)
        required == Required(order_value, self.fees_percent)
        maybe_new_balance == current.balance.free - required
        fees == IF request.state.side = "Buy" THEN order_fees
                ELSE Decimal_mul(order_fees, avg_price)
    IN  IF maybe_new_balance >= 0
        THEN LET balance_snapshot ==
                     [current EXCEPT !.balance = [total |-> maybe_new_balance,
                                                  free |-> maybe_new_balance],
                                     !.time_exchange = now]
                 paid == [self EXCEPT !.account.balances[underlying.quote] = balance_snapshot]
                 next == PaperEngine_order_id_sequence_fetch_add(paid)
                 order_id == next.ret
                 open == Open(order_id, now, filled_qty)
             IN  Opened(next.self, fill,
                        [key |-> request.key,
                         side |-> request.state.side,
                         price |-> avg_price,
                         quantity |-> filled_qty,
                         kind |-> request.state.kind,
                         time_in_force |-> "ImmediateOrCancel",
                         state |-> Ok(open)],
                        [tag |-> "Some",
                         balance |-> balance_snapshot,
                         trade |-> [id |-> order_id,
                                    order_id |-> order_id,
                                    instrument |-> request.key.instrument,
                                    strategy |-> request.key.strategy,
                                    time_exchange |-> now,
                                    side |-> request.state.side,
                                    price |-> avg_price,
                                    quantity |-> filled_qty,
                                    fees |-> [asset |-> "quote", fees |-> fees]]])
        ELSE Opened(self, fill,
                    build_open_order_err_response(
                        request,
                        Rejected(BalanceInsufficient(underlying.quote, current.balance.free,
                                                     required))),
                    OkNone)

\* open_order up to fill_market: the refusal of a request that is not
\* matched, or the engine after fill_market with what fill_market returned
PaperEngine_open_order_match(self, request) ==
    IF request.state.kind # "Market"
    THEN Opened(self, NotReached,
                build_open_order_err_response(request, Rejected(OrderRejected)), OkNone)
    ELSE IF request.key.instrument \notin DOMAIN self.instruments
    THEN Opened(self, NotReached,
                build_open_order_err_response(
                    request,
                    Rejected(InstrumentInvalid(request.key.instrument, "unknown instrument"))),
                OkNone)
    ELSE IF request.key.instrument \notin DOMAIN self.books
    THEN Opened(self, NotReached,
                build_open_order_err_response(
                    request,
                    Rejected(InstrumentInvalid(request.key.instrument, "missing orderbook"))),
                OkNone)
    ELSE LET filled == PaperBook_fill_market(self.books[request.key.instrument],
                                             request.state.side,
                                             Decimal_abs(request.state.quantity))
         IN  [self |-> [self EXCEPT !.books[request.key.instrument] = filled.self],
              fill |-> filled.ret]

PaperEngine_open_order(self, request, now) ==
    LET matched == PaperEngine_open_order_match(self, request)
    IN  IF matched.fill = NotReached THEN matched
        ELSE PaperEngine_open_order_settle(matched.self, request, matched.fill, now)

(***************************************************************************)
(* A paper engine given orders one after the other, and a twin engine      *)
(* built from the same configuration and given the same orders at other    *)
(* times.                                                                  *)
(***************************************************************************)
\* largest price and amount of a resting level, in whole units
MaxPrice == 2

MaxAmount == 2

\* most resting levels of a PaperBook, both sides together
MaxLevels == 2

\* largest order quantity, in whole units
MaxQuantity == 3

\* largest initial balance, in whole units
MaxBalance == 5

\* most orders given to one engine
MaxOrders == 2

PaperLevelLists ==
    LevelLists({Dec(p) : p \in 1..MaxPrice}, {Dec(a) : a \in 1..MaxAmount}, MaxLevels)

\* Instrument::spot(.., Underlying::new("btc", "usdt"), ..)
Instrument == [underlying |-> [base |-> "btc", quote |-> "usdt"]]

\* "i1" is listed with a book, "i2" is listed without a book, "i3" is unknown
Instruments == [name \in {"i1", "i2"} |-> Instrument]

InstrumentNames == {"i1", "i2", "i3"}

Books(bids, asks) == [name \in {"i1"} |-> PaperBook_new(bids, asks)]

\* UnindexedAccountSnapshot with the one balance of the quote asset
AccountSnapshot(free) ==
    [exchange |-> "BinanceSpot",
     balances |-> <<[asset |-> "usdt", balance |-> [total |-> free, free |-> free],
                     time_exchange |-> 0]>>]

InitialBalances == {Dec(1), Dec(MaxBalance)}

\* no fee, and a fee of one half
FeesPercents == {0, Unit \div 2}

\* the values Utc::now() returns
Times == {1, 2}

Quantities == {Dec(q) : q \in (0 - 1)..MaxQuantity}

OrderRequestOpen(instrument, side, price, quantity, kind) ==
    [key |-> [exchange |-> "BinanceSpot", instrument |-> instrument,
              strategy |-> "s", cid |-> "1"],
     state |-> [side |-> side, price |-> price, quantity |-> quantity, kind |-> kind,
                time_in_force |-> "GoodUntilCancelled"]]

\* market orders of every side and quantity for the instrument with a book,
\* and orders of one unit for every other kind and instrument
OrderRequests ==
    {OrderRequestOpen("i1", side, 0, quantity, "Market") :
         side \in {"Buy", "Sell"}, quantity \in Quantities}
    \cup {OrderRequestOpen(instrument, side, Dec(1), Dec(1), kind) :
              instrument \in InstrumentNames, side \in {"Buy", "Sell"},
              kind \in {"Market", "Limit"}}

\* engine: the engine, the latest call of open_order (request, engine
\* before, result of fill_market, returned pair), the ids of the orders
\* opened so far and the number of calls.  twin: the second engine and what
\* it returned for the same request.
OpenOrder ==
    /\ engine # Absent
    /\ engine.calls < MaxOrders
    /\ \E request \in OrderRequests, now \in Times :
           LET r == PaperEngine_open_order(engine.self, request, now)
               other == CHOOSE t \in Times : t # now
               r2 == PaperEngine_open_order(twin.self, request, other)
           IN  /\ engine' = [self |-> r.self,
                             call |-> [tag |-> "call", request |-> request,
                                       pre |-> engine.self, fill |-> r.fill, ret |-> r.ret],
                             opened |-> IF r.ret.order.state.tag = "Ok"
                                        THEN Append(engine.opened, r.ret.order.state.value.id)
                                        ELSE engine.opened,
                             calls |-> engine.calls + 1]
               /\ twin' = [self |-> r2.self, ret |-> r2.ret]
    /\ UNCHANGED <<seqVars, xfVars, bookVars, client, monitor, infraVars, flowVars>>

PaperInit ==
    /\ \E bids \in PaperLevelLists, asks \in PaperLevelLists :
       \E free \in InitialBalances, fees_percent \in FeesPercents :
           LET new == PaperEngine_new("BinanceSpot", fees_percent, Instruments,
                                      Books(bids, asks), AccountSnapshot(free))
           IN  /\ Len(bids) + Len(asks) <= MaxLevels
               /\ engine = [self |-> new, call |-> NoCall, opened |-> <<>>, calls |-> 0]
               /\ twin = [self |-> new, ret |-> Absent]
    /\ orderBook = Absent
    /\ client = Absent
    /\ monitor = Absent
    /\ NoSequencing
    /\ NoInfra
    /\ NoFlow

PaperNext == OpenOrder

PaperSpec == PaperInit /\ [][PaperNext]_vars

(***************************************************************************)
(* Claims about the paper engine                                           *)
(***************************************************************************)
\* open_order has been called; it went as far as fill_market; it returned
\* an open order
Ordered == engine # Absent /\ engine.call.tag = "call"

Matched == Ordered /\ engine.call.fill # NotReached

Filled == Ordered /\ engine.call.ret.order.state.tag = "Ok"

\* the side of a book that an order of the given side consumes, and the
\* side it leaves alone
Opposite(paper_book, side) == IF side = "Buy" THEN paper_book.asks ELSE paper_book.bids

Own(paper_book, side) == IF side = "Buy" THEN paper_book.bids ELSE paper_book.asks

OppositeName(side) == IF side = "Buy" THEN "asks" ELSE "bids"

RECURSIVE Depth(_)
\* the total amount resting on a side
Depth(levels) == IF levels = <<>> THEN 0 ELSE Head(levels).amount + Depth(Tail(levels))

RECURSIVE Worth(_)
\* the sum of amount * price over a side, in units of Unit * Unit
Worth(levels) ==
    IF levels = <<>> THEN 0
    ELSE Head(levels).amount * Head(levels).price + Worth(Tail(levels))

\* the book of the latest order's instrument before and after the call
BookBefore == engine.call.pre.books[engine.call.request.key.instrument]

BookAfter == engine.self.books[engine.call.request.key.instrument]

Magnitude(quantity) == IF quantity < 0 THEN 0 - quantity ELSE quantity

Least(a, b) == IF a < b THEN a ELSE b

\* C12: fill_market(side, q) walks the opposite side from the best price,
\* takes min(remaining, amount) at each level, removes the levels it
\* exhausts, leaves the levels it did not reach (and the other side)
\* unchanged and returns the quantity taken and its average price, the
\* value taken divided by that quantity, or 0 when nothing was taken
C12_FillMarket ==
    Matched =>
        LET side == engine.call.request.state.side
            q == Magnitude(engine.call.request.state.quantity)
            pre == Opposite(BookBefore, side)
            post == Opposite(BookAfter, side)
            filled == engine.call.fill.filled
            avg == engine.call.fill.avg_price
            value == Worth(pre) - Worth(post)
        IN  /\ Own(BookAfter, side) = Own(BookBefore, side)
            \* the side is walked from its best price
            /\ \A i, j \in DOMAIN pre :
                   i < j => ~Better(OppositeName(side), pre[j].price, pre[i].price)
            \* the first k levels are exhausted and removed, the next one is
            \* reduced but not emptied, the others are as they were
            /\ \E k \in 0..Len(pre) :
                   /\ Len(post) = Len(pre) - k
                   /\ \A i \in DOMAIN post :
                          /\ post[i].price = pre[k + i].price
                          /\ post[i].amount > 0
                          /\ post[i].amount <= pre[k + i].amount
                          /\ i > 1 => post[i] = pre[k + i]
            /\ filled = Least(q, Depth(pre))
            /\ filled = Depth(pre) - Depth(post)
            \* nothing is taken beyond a level that is left with an amount
            /\ post # <<>> => filled = q
            /\ IF filled > 0
               THEN 2 * Magnitude(avg * filled - value) <= filled
               ELSE avg = 0

\* the example of C12: asks [(1,1),(2,2)], Buy 2 gives filled 2, average 1.5
\* and leaves the ask (2,1)
C12_Witness ==
    /\ Matched
    /\ engine.call.request.state.side = "Buy"
    /\ engine.call.request.state.quantity = Dec(2)
    /\ BookBefore.asks = <<Level(Dec(1), Dec(1)), Level(Dec(2), Dec(2))>>
    /\ engine.call.fill = [filled |-> Dec(2), avg_price |-> Dec(1) + Unit \div 2]
    /\ BookAfter.asks = <<Level(Dec(2), Dec(1))>>

\* C13 as claimed: the filled_quantity an order reports is at most the
\* requested quantity (its magnitude) and at most the amount resting on the opposite side
\* before it, and an order (of a size above 0) of at least the depth of the
\* book consumes all of it and reports filled_quantity < requested
C13_NoFabrication_Claimed ==
    Filled =>
        LET requested == Magnitude(engine.call.request.state.quantity)
            resting == Depth(Opposite(BookBefore, engine.call.request.state.side))
            filled_quantity == engine.call.ret.order.state.value.filled_quantity
        IN  /\ filled_quantity <= requested
            /\ filled_quantity <= resting
            /\ requested > 0 /\ requested >= resting =>
                   /\ Opposite(BookAfter, engine.call.request.state.side) = <<>>
                   /\ filled_quantity < requested

\* C13 amended: the filled_quantity an order reports is at most the
\* magnitude of the requested quantity and at most the amount resting on the
\* opposite side before it; an order of at least the depth of the book
\* consumes all of it and reports the depth as filled_quantity, which is
\* less than the magnitude requested exactly when the order is larger than
\* the depth
C13_NoFabrication ==
    Matched =>
        LET side == engine.call.request.state.side
            requested == Magnitude(engine.call.request.state.quantity)
            resting == Depth(Opposite(BookBefore, side))
        IN  /\ requested >= resting => Opposite(BookAfter, side) = <<>>
            /\ Filled =>
                   LET filled_quantity == engine.call.ret.order.state.value.filled_quantity
                   IN  /\ filled_quantity <= requested
                       /\ filled_quantity <= resting
                       /\ filled_quantity = engine.call.ret.notifications.trade.quantity
                       /\ requested >= resting => filled_quantity = resting
                       /\ filled_quantity < requested <=> requested > resting

\* an order of exactly the depth of the book was filled completely and
\* emptied the side
C13_Witness ==
    /\ Filled
    /\ Depth(Opposite(BookBefore, engine.call.request.state.side)) = Dec(1)
    /\ engine.call.request.state.quantity = Dec(1)
    /\ engine.call.ret.order.state.value.filled_quantity = Dec(1)
    /\ Opposite(BookAfter, engine.call.request.state.side) = <<>>

\* the balance of the quote asset held by an engine
QuoteBalance(self) == self.account.balances["usdt"].balance

\* C14: an order that reaches the balance update succeeds if and only if
\* free >= required, where required is value * (1 + fees_percent) for a Buy
\* (value = filled quantity * average price) and filled quantity *
\* (1 + fees_percent) for a Sell; on success free and total both decrease by
\* exactly required, otherwise the order is Rejected(BalanceInsufficient)
\* with the balance unchanged; free is never negative
C14_BalanceCheck ==
    /\ engine # Absent => QuoteBalance(engine.self).free >= 0
    /\ Filled => Matched
    /\ Matched =>
           LET before == QuoteBalance(engine.call.pre)
               after == QuoteBalance(engine.self)
               fill == engine.call.fill
               fees_percent == engine.call.pre.fees_percent
               value == Decimal_mul(fill.filled, fill.avg_price)
               required == IF engine.call.request.state.side = "Buy"
                           THEN Decimal_mul(value, Unit + fees_percent)
                           ELSE Decimal_mul(fill.filled, Unit + fees_percent)
           IN  /\ Filled <=> before.free >= required
               /\ Filled =>
                      /\ after.free = before.free - required
                      /\ after.total = before.total - required
               /\ ~Filled =>
                      /\ engine.call.ret.order.state.tag = "Err"
                      /\ engine.call.ret.order.state.error.kind = "Rejected"
                      /\ engine.call.ret.order.state.error.api.kind = "BalanceInsufficient"
                      /\ engine.self.account = engine.call.pre.account

\* after an order that was paid for with its fees, the next order is
\* rejected for the balance left
C14_Witness ==
    /\ Matched
    /\ ~Filled
    /\ engine.call.pre.order_sequence = 1
    /\ engine.call.pre.fees_percent > 0
    /\ QuoteBalance(engine.call.pre).free > 0
    /\ QuoteBalance(engine.call.pre).free < Dec(MaxBalance)

\* the order returned for the latest request is the given rejection and
\* repeats the request
Refused(api_kind) ==
    LET order == engine.call.ret.order
        request == engine.call.request
    IN  /\ order.state.tag = "Err"
        /\ order.state.error.kind = "Rejected"
        /\ order.state.error.api.kind = api_kind
        /\ order.key = request.key
        /\ order.side = request.state.side
        /\ order.price = request.state.price
        /\ order.quantity = request.state.quantity
        /\ engine.call.ret.notifications = OkNone

\* C15: open_order validates before matching: a request whose kind is not
\* Market is returned as Rejected(OrderRejected); otherwise a request for an
\* instrument that is unknown or has no PaperBook is returned as
\* Rejected(InstrumentInvalid); in both cases the order repeats the
\* request's key, side, price and quantity, there are no notifications and
\* nothing was matched
C15_ValidateFirst ==
    Ordered =>
        LET request == engine.call.request
            pre == engine.call.pre
            unlisted == \/ request.key.instrument \notin DOMAIN pre.instruments
                        \/ request.key.instrument \notin DOMAIN pre.books
        IN  /\ request.state.kind # "Market" =>
                   /\ Refused("OrderRejected")
                   /\ ~Matched
                   /\ engine.self = pre
            /\ request.state.kind = "Market" /\ unlisted =>
                   /\ Refused("InstrumentInvalid")
                   /\ engine.call.ret.order.state.error.api.instrument = request.key.instrument
                   /\ ~Matched
                   /\ engine.self = pre
            /\ request.state.kind = "Market" /\ ~unlisted => Matched

\* a Limit order for an unknown instrument, the second order of its engine,
\* was refused for its kind
C15_Witness ==
    /\ Ordered
    /\ engine.call.request.state.kind = "Limit"
    /\ engine.call.request.key.instrument = "i3"
    /\ Refused("OrderRejected")
    /\ engine.call.request.state.price # 0
    /\ engine.calls = 2

RECURSIVE IdNumber(_)
\* the number an id of decimal digits stands for
IdNumber(id) ==
    IF id = <<>> THEN 0 ELSE 10 * IdNumber(SubSeq(id, 1, Len(id) - 1)) + id[Len(id)]

\* C16: the n-th order an engine opens has the id n-1, so that ids increase
\* in the order of submission and no two orders share one; the trade of an
\* order carries the order's id; a rejected order consumes no id
C16_SequentialIds ==
    engine # Absent =>
        /\ \A n \in DOMAIN engine.opened : IdNumber(engine.opened[n]) = n - 1
        /\ \A n, k \in DOMAIN engine.opened : n # k => engine.opened[n] # engine.opened[k]
        /\ Filled =>
               /\ engine.call.ret.order.state.value.id = engine.opened[Len(engine.opened)]
               /\ engine.call.ret.notifications.trade.order_id = engine.call.ret.order.state.value.id
               /\ engine.call.ret.notifications.trade.id = engine.call.ret.order.state.value.id
               /\ engine.self.order_sequence = engine.call.pre.order_sequence + 1
        /\ Ordered /\ ~Filled =>
               engine.self.order_sequence = engine.call.pre.order_sequence

\* two orders were opened one after the other
C16_Witness ==
    /\ Filled
    /\ Len(engine.opened) = 2
    /\ IdNumber(engine.call.ret.order.state.value.id) = 1

\* an order, the notifications and an engine with their timestamps blanked
OrderButTime(order) ==
    IF order.state.tag = "Ok" THEN [order EXCEPT !.state.value.time_exchange = 0] ELSE order

NotificationsButTime(notifications) ==
    IF notifications.tag = "Some"
    THEN [notifications EXCEPT !.balance.time_exchange = 0, !.trade.time_exchange = 0]
    ELSE notifications

EngineButTime(self) ==
    [self EXCEPT !.account.balances =
        [asset \in DOMAIN @ |-> [@[asset] EXCEPT !.time_exchange = 0]]]

\* C17: two engines built from the same books, instruments, balances and
\* fee and given the same orders, at different times, return the same
\* orders and notifications and end in the same state, timestamps aside
C17_Deterministic ==
    engine # Absent /\ twin # Absent =>
        /\ EngineButTime(twin.self) = EngineButTime(engine.self)
        /\ Ordered =>
               /\ OrderButTime(twin.ret.order) = OrderButTime(engine.call.ret.order)
               /\ NotificationsButTime(twin.ret.notifications)
                      = NotificationsButTime(engine.call.ret.notifications)

\* both engines opened their second order, at different times
C17_Witness ==
    /\ Filled
    /\ Len(engine.opened) = 2
    /\ twin.ret.order.state.tag = "Ok"
    /\ twin.ret.order.state.value.time_exchange
           # engine.call.ret.order.state.value.time_exchange
    /\ twin.self # engine.self

(***************************************************************************)
(* BinancePaperClient: an engine behind a mutex and a broadcast channel.   *)
(* Two tasks each poll one open_order future.  A task's pc is its place in *)
(* the async block:                                                        *)
(*   "idle"      no future yet                                             *)
(*   "called"    future created, waiting for engine.lock()                 *)
(*   "locked"    holds the guard, about to call engine.open_order          *)
(*   "filled"    inside engine.open_order, fill_market done                *)
(*   "opened"    engine.open_order returned (order, notifications)         *)
(*   "acked"     ack_trade done                                            *)
(*   "sent"      BalanceSnapshot sent                                      *)
(*   "traded"    Trade sent                                                *)
(*   "done"      guard dropped, order returned                             *)
(***************************************************************************)
Tasks == {"t1", "t2"}

NoTask == "none"

\* AccountState::ack_trade: the account records the trade
AccountState_ack_trade(account, trade) ==
    [account EXCEPT !.trades = Append(@, trade)]

\* a lock that is granted whoever holds it
Mutex_lock_Granted(holder) == TRUE

\* Mutex::lock returns once no other guard is alive
Mutex_lock(holder) == holder = NoTask

\* AccountEvent { exchange, kind: BalanceSnapshot(notifs.balance) }; by names
\* the task that sent it
BalanceSnapshotEvent(notifs, by) ==
    [exchange |-> "BinanceSpot", kind |-> "BalanceSnapshot", value |-> notifs.balance,
     by |-> by]

\* a second BalanceSnapshot in the place of the Trade
TradeEvent_Balance(notifs, by) ==
    [exchange |-> "BinanceSpot", kind |-> "BalanceSnapshot", value |-> notifs.balance,
     by |-> by]

\* AccountEvent { exchange, kind: Trade(notifs.trade) }
TradeEvent(notifs, by) ==
    [exchange |-> "BinanceSpot", kind |-> "Trade", value |-> notifs.trade, by |-> by]

\* BinancePaperClient::new(config)
BinancePaperClient_new(config) ==
    [engine |-> PaperEngine_new("BinanceSpot", config.fees_percent, config.instruments,
                                config.books, config.snapshot),
     holder |-> NoTask,
     events |-> <<>>]

IdleTask == [pc |-> "idle"]

\* the requests the tasks submit
ClientRequests ==
    {OrderRequestOpen("i1", side, 0, Dec(q), "Market") :
         side \in {"Buy", "Sell"}, q \in 1..2}
    \cup {OrderRequestOpen("i1", "Buy", Dec(1), Dec(1), "Limit"),
          OrderRequestOpen("i2", "Buy", 0, Dec(1), "Market"),
          OrderRequestOpen("i3", "Sell", Dec(1), Dec(1), "Market")}

\* client: the client (self), the tasks, and the engine it started with
TaskStep(t, task, self) ==
    /\ client' = [client EXCEPT !.tasks[t] = task, !.self = self]
    /\ UNCHANGED <<seqVars, xfVars, bookVars, engine, twin, monitor, infraVars, flowVars>>

\* client.open_order(request): the request is copied and the future created
Call(t) ==
    /\ client.tasks[t].pc = "idle"
    /\ \E request \in ClientRequests :
           TaskStep(t, [pc |-> "called", request |-> request], client.self)

\* engine.lock().unwrap()
Lock(t) ==
    /\ client.tasks[t].pc = "called"
    /\ Mutex_lock(client.self.holder)
    /\ TaskStep(t, [client.tasks[t] EXCEPT !.pc = "locked"],
                [client.self EXCEPT !.holder = t])

\* engine.open_order, as far as fill_market or a refusal
Match(t) ==
    /\ client.tasks[t].pc = "locked"
    /\ LET r == PaperEngine_open_order_match(client.self.engine, client.tasks[t].request)
       IN  TaskStep(t,
                    IF r.fill = NotReached
                    THEN [pc |-> "opened", request |-> client.tasks[t].request,
                          order |-> r.ret.order, notifications |-> r.ret.notifications,
                          now |-> 0]
                    ELSE [pc |-> "filled", request |-> client.tasks[t].request,
                          fill |-> r.fill],
                    [client.self EXCEPT !.engine = r.self])

\* engine.open_order, from the balance update to its return
Settle(t) ==
    /\ client.tasks[t].pc = "filled"
    /\ \E now \in Times :
           LET r == PaperEngine_open_order_settle(client.self.engine, client.tasks[t].request,
                                                  client.tasks[t].fill, now)
           IN  TaskStep(t,
                        [pc |-> "opened", request |-> client.tasks[t].request,
                         order |-> r.ret.order, notifications |-> r.ret.notifications,
                         now |-> now],
                        [client.self EXCEPT !.engine = r.self])

\* engine.account.ack_trade(notifs.trade.clone())
AckTrade(t) ==
    /\ client.tasks[t].pc = "opened"
    /\ client.tasks[t].notifications.tag = "Some"
    /\ TaskStep(t, [client.tasks[t] EXCEPT !.pc = "acked"],
                [client.self EXCEPT !.engine.account =
                    AccountState_ack_trade(@, client.tasks[t].notifications.trade)])

\* tx.send(BalanceSnapshot)
SendBalance(t) ==
    /\ client.tasks[t].pc = "acked"
    /\ TaskStep(t, [client.tasks[t] EXCEPT !.pc = "sent"],
                [client.self EXCEPT !.events =
                    Append(@, BalanceSnapshotEvent(client.tasks[t].notifications, t))])

\* tx.send(Trade)
SendTrade(t) ==
    /\ client.tasks[t].pc = "sent"
    /\ TaskStep(t, [client.tasks[t] EXCEPT !.pc = "traded"],
                [client.self EXCEPT !.events =
                    Append(@, TradeEvent(client.tasks[t].notifications, t))])

\* the block ends: the guard is dropped and the order returned
Return(t) ==
    /\ \/ client.tasks[t].pc = "traded"
       \/ client.tasks[t].pc = "opened" /\ client.tasks[t].notifications.tag # "Some"
    /\ TaskStep(t, [client.tasks[t] EXCEPT !.pc = "done"],
                [client.self EXCEPT !.holder = IF @ = t THEN NoTask ELSE @])

\* the configurations of a client: the asks (1,1), (2,1) and the bid (1,1)
ClientConfigs ==
    {[books |-> Books(<<Level(Dec(1), Dec(1))>>,
                      <<Level(Dec(1), Dec(1)), Level(Dec(2), Dec(1))>>),
      instruments |-> Instruments,
      snapshot |-> AccountSnapshot(free),
      fees_percent |-> 0] : free \in InitialBalances}

ClientInit ==
    /\ \E config \in ClientConfigs :
           client = [self |-> BinancePaperClient_new(config),
                     tasks |-> [t \in Tasks |-> IdleTask],
                     initial |-> BinancePaperClient_new(config)]
    /\ orderBook = Absent
    /\ engine = Absent
    /\ twin = Absent
    /\ monitor = Absent
    /\ NoSequencing
    /\ NoInfra
    /\ NoFlow

ClientNext ==
    \E t \in Tasks :
        \/ Call(t)
        \/ Lock(t)
        \/ Match(t)
        \/ Settle(t)
        \/ AckTrade(t)
        \/ SendBalance(t)
        \/ SendTrade(t)
        \/ Return(t)

ClientSpec == ClientInit /\ [][ClientNext]_vars

\* the whole async block of open_order run alone by task t on the client self
Alone(self, t, request, now) ==
    LET r == PaperEngine_open_order(self.engine, request, now)
        notifs == r.ret.notifications
    IN  IF notifs.tag = "Some"
        THEN [self |-> [self EXCEPT
                           !.engine = [r.self EXCEPT !.account =
                                          AccountState_ack_trade(@, notifs.trade)],
                           !.events = self.events \o <<BalanceSnapshotEvent(notifs, t),
                                                       TradeEvent(notifs, t)>>],
              order |-> r.ret.order]
        ELSE [self |-> [self EXCEPT !.engine = r.self], order |-> r.ret.order]

\* task t and then task u, one after the other, with the clock values they read
OneAfterTheOther(t, u) ==
    LET first == Alone(client.initial, t, client.tasks[t].request, client.tasks[t].now)
        second == Alone(first.self, u, client.tasks[u].request, client.tasks[u].now)
    IN  [self |-> second.self,
         orders |-> [x \in {t, u} |-> IF x = t THEN first.order ELSE second.order]]

\* the places of a task between engine.lock() returning and the guard's drop
InCriticalSection(t) ==
    client.tasks[t].pc \in {"locked", "filled", "opened", "acked", "sent", "traded"}

\* the events of one task are next to each other in the channel
NotInterleaved ==
    \A i \in DOMAIN client.self.events : \A j \in DOMAIN client.self.events :
        (i < j /\ client.self.events[i].by = client.self.events[j].by)
            => \A k \in i..j : client.self.events[k].by = client.self.events[i].by

BothDone == \A t \in Tasks : client.tasks[t].pc = "done"

\* C18: two concurrent open_order calls on a BinancePaperClient are serialized
\* by the engine mutex: no task starts matching while the other is between
\* its lock and its return, the events of the two orders are never
\* interleaved, and once both have returned the orders, the engine (books,
\* balances, trades, order sequence) and the events are those of running one
\* request after the other in one of the two orders
C18_Serialized ==
    /\ \A t \in Tasks : \A u \in Tasks :
           (t # u /\ InCriticalSection(t)) => ~InCriticalSection(u)
    /\ NotInterleaved
    /\ BothDone =>
           \E t \in Tasks : \E u \in Tasks \ {t} :
               /\ OneAfterTheOther(t, u).self = [client.self EXCEPT !.holder = NoTask]
               /\ \A x \in Tasks : OneAfterTheOther(t, u).orders[x] = client.tasks[x].order

\* both tasks have returned opened orders and the second to lock bought at a
\* worse price than the first: the order of the two shows in the outcome
C18_Witness ==
    /\ BothDone
    /\ \A t \in Tasks : client.tasks[t].notifications.tag = "Some"
    /\ Len(client.self.events) = 4
    /\ \E t \in Tasks : \E u \in Tasks \ {t} :
           /\ client.tasks[t].request = client.tasks[u].request
           /\ client.tasks[t].order.price # client.tasks[u].order.price

\* the kinds of the events task t has sent, in the order of the channel
KindsBy(t) ==
    LET RECURSIVE kinds(_)
        kinds(events) ==
            IF events = <<>> THEN <<>>
            ELSE IF Head(events).by = t THEN <<Head(events).kind>> \o kinds(Tail(events))
            ELSE kinds(Tail(events))
    IN  kinds(client.self.events)

\* the task has its order back from engine.open_order
HasOrder(t) == client.tasks[t].pc \in {"opened", "acked", "sent", "traded", "done"}

\* C19: engine.open_order returns notifications exactly when the returned
\* order's state is Ok (an error is carried by the state alone); an order that
\* was rejected has no event in the channel at any time, an opened order has
\* at most a BalanceSnapshot followed by a Trade, and once the call has
\* returned exactly these two, carrying the balance and the trade of the
\* notifications
C19_ErrorsInState ==
    \A t \in Tasks :
        /\ ~HasOrder(t) => KindsBy(t) = <<>>
        /\ HasOrder(t) =>
               /\ client.tasks[t].notifications.tag = "Some"
                      <=> client.tasks[t].order.state.tag = "Ok"
               /\ client.tasks[t].order.state.tag # "Ok" => KindsBy(t) = <<>>
               /\ client.tasks[t].order.state.tag = "Ok" =>
                      /\ KindsBy(t) \in {<<>>, <<"BalanceSnapshot">>,
                                         <<"BalanceSnapshot", "Trade">>}
                      /\ client.tasks[t].pc = "done" =>
                             /\ KindsBy(t) = <<"BalanceSnapshot", "Trade">>
                             /\ \A i \in DOMAIN client.self.events :
                                    client.self.events[i].by = t =>
                                        client.self.events[i].value =
                                            IF client.self.events[i].kind = "Trade"
                                            THEN client.tasks[t].notifications.trade
                                            ELSE client.tasks[t].notifications.balance

\* both calls have returned, one with an opened order and one with a rejected
\* order, and the channel holds the two events of the opened one
C19_Witness ==
    /\ BothDone
    /\ \E t \in Tasks : \E u \in Tasks \ {t} :
           /\ client.tasks[t].order.state.tag = "Ok"
           /\ client.tasks[u].order.state.tag = "Err"
           /\ client.tasks[u].order.state.error.api.kind = "BalanceInsufficient"
    /\ Len(client.self.events) = 2

(***************************************************************************)
(* JackpotMonitor: the open jackpot positions, one per instrument, and the *)
(* closing order of a position whose loss reaches its ticket loss.         *)
(***************************************************************************)
MaxMonitorPrice == 2

MaxMonitorQuantity == 2

MaxTicketLoss == 2

\* a loss that counts only when it is beyond the ticket loss
MonitoredPosition_loss_exceeded_Beyond(self, price) ==
    LET value_current == Decimal_mul(price, self.quantity)
        value_entry == Decimal_mul(self.entry_price, self.quantity)
        pnl == IF self.side = "Buy" THEN value_current - value_entry
               ELSE value_entry - value_current
    IN  pnl < 0 - self.ticket_loss

\* MonitoredPosition::loss_exceeded(&self, price)
MonitoredPosition_loss_exceeded(self, price) ==
    LET value_current == Decimal_mul(price, self.quantity)
        value_entry == Decimal_mul(self.entry_price, self.quantity)
        pnl == IF self.side = "Buy" THEN value_current - value_entry
               ELSE value_entry - value_current
    IN  pnl <= 0 - self.ticket_loss

\* JackpotMonitor::default()
JackpotMonitor_default == [positions |-> <<>>]

\* an insert that keeps no other key
HashMap_insert_Only(map, key, value) == [k \in {key} |-> value]

\* HashMap::insert: the value of the key is set, whether or not it had one
HashMap_insert(map, key, value) ==
    [k \in DOMAIN map \cup {key} |-> IF k = key THEN value ELSE map[k]]

\* HashMap::remove
HashMap_remove(map, key) == [k \in DOMAIN map \ {key} |-> map[k]]

\* JackpotMonitor::record_trade(&mut self, trade, ticket_loss)
JackpotMonitor_record_trade(self, trade, ticket_loss) ==
    [self |-> [self EXCEPT !.positions =
                  HashMap_insert(@, trade.instrument,
                                 [side |-> trade.side,
                                  entry_price |-> trade.price,
                                  quantity |-> Decimal_abs(trade.quantity),
                                  ticket_loss |-> ticket_loss,
                                  strategy |-> trade.strategy,
                                  cid |-> trade.order_id])],
     ret |-> "unit"]

\* an update_price that stops monitoring a position it does not close
JackpotMonitor_update_price_Forget(self, exchange, instrument, price) ==
    IF instrument \notin DOMAIN self.positions
    THEN [self |-> self, ret |-> OkNone]
    ELSE LET pos == self.positions[instrument]
         IN  IF ~MonitoredPosition_loss_exceeded(pos, price)
             THEN [self |-> [self EXCEPT !.positions = HashMap_remove(@, instrument)],
                   ret |-> OkNone]
             ELSE [self |-> [self EXCEPT !.positions = HashMap_remove(@, instrument)],
                   ret |-> [tag |-> "Some",
                            key |-> [exchange |-> exchange, instrument |-> instrument,
                                     strategy |-> pos.strategy, cid |-> pos.cid],
                            state |-> [side |-> IF pos.side = "Buy" THEN "Sell" ELSE "Buy",
                                       price |-> price,
                                       quantity |-> pos.quantity,
                                       kind |-> "Market",
                                       time_in_force |-> "ImmediateOrCancel"]]]

\* an update_price that leaves the position it closes in the map
JackpotMonitor_update_price_Keep(self, exchange, instrument, price) ==
    IF instrument \notin DOMAIN self.positions
    THEN [self |-> self, ret |-> OkNone]
    ELSE LET pos == self.positions[instrument]
         IN  IF ~MonitoredPosition_loss_exceeded(pos, price)
             THEN [self |-> self, ret |-> OkNone]
             ELSE [self |-> self,
                   ret |-> [tag |-> "Some",
                            key |-> [exchange |-> exchange, instrument |-> instrument,
                                     strategy |-> pos.strategy, cid |-> pos.cid],
                            state |-> [side |-> IF pos.side = "Buy" THEN "Sell" ELSE "Buy",
                                       price |-> price,
                                       quantity |-> pos.quantity,
                                       kind |-> "Market",
                                       time_in_force |-> "ImmediateOrCancel"]]]

\* JackpotMonitor::update_price(&mut self, exchange, instrument, price)
JackpotMonitor_update_price(self, exchange, instrument, price) ==
    IF instrument \notin DOMAIN self.positions
    THEN [self |-> self, ret |-> OkNone]
    ELSE LET pos == self.positions[instrument]
         IN  IF ~MonitoredPosition_loss_exceeded(pos, price)
             THEN [self |-> self, ret |-> OkNone]
             ELSE [self |-> [self EXCEPT !.positions = HashMap_remove(@, instrument)],
                   ret |-> [tag |-> "Some",
                            key |-> [exchange |-> exchange, instrument |-> instrument,
                                     strategy |-> pos.strategy, cid |-> pos.cid],
                            state |-> [side |-> IF pos.side = "Buy" THEN "Sell" ELSE "Buy",
                                       price |-> price,
                                       quantity |-> pos.quantity,
                                       kind |-> "Market",
                                       time_in_force |-> "ImmediateOrCancel"]]]

\* JackpotMonitor::is_empty(&self)
JackpotMonitor_is_empty(self) == DOMAIN self.positions = {}

MonitorInstruments == {"BTC-USDT", "ETH-USDT"}

MonitorPrices == {Dec(p) : p \in 1..MaxMonitorPrice}

\* the quantities of a trade: a magnitude, or the least one with a minus sign
MonitorQuantities == {Dec(q) : q \in 1..MaxMonitorQuantity} \cup {0 - Dec(1)}

\* the ticket losses a caller configures: a positive amount
TicketLosses == {Dec(l) : l \in 1..MaxTicketLoss}

\* the executed trades a caller records: the orders of one instrument belong
\* to one strategy, and a buy and a sell are different orders
MonitorTrades ==
    {[id |-> "t",
      order_id |-> IF side = "Buy" THEN "o1" ELSE "o2",
      instrument |-> instrument,
      strategy |-> IF instrument = "BTC-USDT" THEN "j1" ELSE "j2",
      time_exchange |-> 0, side |-> side, price |-> price, quantity |-> quantity,
      fees |-> [asset |-> "quote", fees |-> 0]] :
         instrument \in MonitorInstruments, side \in {"Buy", "Sell"},
         price \in MonitorPrices, quantity \in MonitorQuantities}

\* monitor: the monitor (self), the last call with the monitor it met (pre)
\* and what it returned, and for each instrument whether an update_price has
\* returned an order since the last record_trade of that instrument
\* (closed; closedBefore is its value when the last call was made)
RecordTrade ==
    /\ \E trade \in MonitorTrades : \E ticket_loss \in TicketLosses :
           LET r == JackpotMonitor_record_trade(monitor.self, trade, ticket_loss)
           IN  monitor' = [self |-> r.self,
                           call |-> [op |-> "record_trade", instrument |-> trade.instrument,
                                     trade |-> trade, ticket_loss |-> ticket_loss,
                                     pre |-> monitor.self, ret |-> r.ret],
                           closed |-> [monitor.closed EXCEPT ![trade.instrument] = FALSE],
                           closedBefore |-> monitor.closed]
    /\ UNCHANGED <<seqVars, xfVars, bookVars, engine, twin, client, infraVars, flowVars>>

UpdatePrice ==
    /\ \E instrument \in MonitorInstruments : \E price \in MonitorPrices :
           LET r == JackpotMonitor_update_price(monitor.self, "BinanceSpot", instrument, price)
           IN  monitor' = [self |-> r.self,
                           call |-> [op |-> "update_price", instrument |-> instrument,
                                     price |-> price,
                                     pre |-> monitor.self, ret |-> r.ret],
                           closed |-> [monitor.closed EXCEPT
                                          ![instrument] = @ \/ r.ret.tag = "Some"],
                           closedBefore |-> monitor.closed]
    /\ UNCHANGED <<seqVars, xfVars, bookVars, engine, twin, client, infraVars, flowVars>>

MonitorInit ==
    /\ monitor = [self |-> JackpotMonitor_default,
                  call |-> NoCall,
                  closed |-> [instrument \in MonitorInstruments |-> FALSE],
                  closedBefore |-> [instrument \in MonitorInstruments |-> FALSE]]
    /\ orderBook = Absent
    /\ engine = Absent
    /\ twin = Absent
    /\ client = Absent
    /\ NoSequencing
    /\ NoInfra
    /\ NoFlow

MonitorNext == RecordTrade \/ UpdatePrice

MonitorSpec == MonitorInit /\ [][MonitorNext]_vars

UpdatedPrice == monitor.call # NoCall /\ monitor.call.op = "update_price"

\* C20: between two record_trade calls of an instrument at most one
\* update_price of it returns an order: an update_price that returns
\* Some(order) is the first to do so since the instrument's last record_trade
\* and leaves no position of the instrument, and every update_price after it
\* (until the next record_trade of the instrument) returns None and finds no
\* position
C20_OneLiquidation ==
    /\ UpdatedPrice =>
           /\ monitor.call.ret.tag = "Some" =>
                  /\ ~monitor.closedBefore[monitor.call.instrument]
                  /\ monitor.call.instrument \notin DOMAIN monitor.self.positions
           /\ monitor.closedBefore[monitor.call.instrument] =>
                  /\ monitor.call.ret = OkNone
                  /\ monitor.call.instrument \notin DOMAIN monitor.call.pre.positions
    /\ \A instrument \in MonitorInstruments :
           monitor.closed[instrument] => instrument \notin DOMAIN monitor.self.positions

\* an update_price returns None for an instrument whose position an earlier
\* update_price closed, the monitor being empty as at the end of
\* test_liquidation_triggered
C20_Witness ==
    /\ UpdatedPrice
    /\ monitor.closedBefore[monitor.call.instrument]
    /\ monitor.call.ret = OkNone
    /\ JackpotMonitor_is_empty(monitor.self)

RecordedTrade == monitor.call # NoCall /\ monitor.call.op = "record_trade"

\* the position update_price met for the instrument it was called with
PositionBefore == monitor.call.pre.positions[monitor.call.instrument]

OtherSide(side) == IF side = "Buy" THEN "Sell" ELSE "Buy"

\* the profit of a position at a price: (price - entry) * qty for a buy,
\* (entry - price) * qty for a sell
Pnl(pos, price) ==
    IF pos.side = "Buy" THEN Decimal_mul(price - pos.entry_price, pos.quantity)
    ELSE Decimal_mul(pos.entry_price - price, pos.quantity)

NoPosition == monitor.call.instrument \notin DOMAIN monitor.call.pre.positions

\* C22: an update_price for an instrument without a position, or at a price
\* where the position's pnl is above -ticket_loss, returns None and leaves the
\* monitor as it was (the position, if any, stays monitored); and whenever
\* update_price returns None the monitor is as it was
C22_NoneLeavesPositions ==
    UpdatedPrice =>
        /\ (\/ NoPosition
            \/ Pnl(PositionBefore, monitor.call.price) > 0 - PositionBefore.ticket_loss) =>
               /\ monitor.call.ret = OkNone
               /\ monitor.self = monitor.call.pre
        /\ monitor.call.ret = OkNone => monitor.self = monitor.call.pre

\* a price update at a small loss keeps a position monitored while the other
\* instrument has none, as in test_no_liquidation_when_safe
C22_Witness ==
    /\ UpdatedPrice
    /\ ~NoPosition
    /\ Pnl(PositionBefore, monitor.call.price) < 0
    /\ monitor.call.ret = OkNone
    /\ DOMAIN monitor.self.positions = {monitor.call.instrument}

\* the calls a caller can make for one instrument
MonitorCalls(instrument) ==
    {[op |-> "record_trade", trade |-> trade, ticket_loss |-> ticket_loss] :
         trade \in {t \in MonitorTrades : t.instrument = instrument},
         ticket_loss \in TicketLosses}
    \cup {[op |-> "update_price", instrument |-> instrument, price |-> price] :
              price \in MonitorPrices}

\* one call made on the monitor self
Made(self, c) ==
    IF c.op = "record_trade"
    THEN JackpotMonitor_record_trade(self, c.trade, c.ticket_loss)
    ELSE JackpotMonitor_update_price(self, "BinanceSpot", c.instrument, c.price)

\* the calls a and b made in this order on the monitor self: the monitor
\* left and what each call returned
MadeInOrder(self, a, b) ==
    LET first == Made(self, a)
        second == Made(first.self, b)
    IN  [self |-> second.self, a |-> first.ret, b |-> second.ret]

\* the position of an instrument in a monitor, or that there is none
PositionOf(self, instrument) ==
    IF instrument \in DOMAIN self.positions THEN self.positions[instrument]
    ELSE [tag |-> "none"]

\* C23: calls for different instruments are independent: a record_trade or
\* update_price for one instrument leaves the position of every other
\* instrument as it was, and on the monitor left by default() or by an
\* update_price (every monitor is left by one: an update_price at a
\* position's entry price changes nothing) any call for BTC-USDT and any
\* call for ETH-USDT return the same and leave the same monitor in either
\* order; a record_trade leaves for its instrument the position it leaves on
\* an empty monitor, whatever position was there
C23_Independent ==
    /\ monitor.call # NoCall =>
           \A other \in MonitorInstruments \ {monitor.call.instrument} :
               PositionOf(monitor.self, other) = PositionOf(monitor.call.pre, other)
    /\ (monitor.call = NoCall \/ UpdatedPrice) =>
         \A a \in MonitorCalls("BTC-USDT") : \A b \in MonitorCalls("ETH-USDT") :
           LET ab == MadeInOrder(monitor.self, a, b)
               ba == MadeInOrder(monitor.self, b, a)
           IN  ab.self = ba.self /\ ab.a = ba.b /\ ab.b = ba.a
    /\ RecordedTrade =>
           PositionOf(monitor.self, monitor.call.instrument) =
               PositionOf(JackpotMonitor_record_trade(JackpotMonitor_default,
                                                      monitor.call.trade,
                                                      monitor.call.ticket_loss).self,
                          monitor.call.instrument)

\* a record_trade replaces a position of its instrument by a different one
\* while the other instrument has a position
C23_Witness ==
    /\ RecordedTrade
    /\ DOMAIN monitor.call.pre.positions = MonitorInstruments
    /\ PositionBefore # monitor.self.positions[monitor.call.instrument]

(***************************************************************************)
(* SnapshotScheduler: the record buffer (FakeRedis), the temp directory,   *)
(* the object store (LocalStore) and the table metadata file, with the     *)
(* loop of start() that runs snapshot_once at every interval tick.  Times  *)
(* are the milliseconds Utc::now() and the file system report.             *)
(***************************************************************************)
MaxRecords == 2

MaxClock == 2

MaxTicks == 2

\* config.retention, in milliseconds
Retention == 1

\* FakeRedis::insert(&self, record)
FakeRedis_insert(data, record) == Append(data, record)

\* FakeRedis::get_all(&self): a clone of the buffer, which stays as it is
FakeRedis_get_all(data) == [data |-> data, ret |-> data]

\* a file system path that names no file
NoFile == [tag |-> "no file"]

\* a map with the value of one key set
Put(map, key, value) == [k \in DOMAIN map \cup {key} |-> IF k = key THEN value ELSE map[k]]

\* write_parquet(records, path): the file is created (an old one replaced)
\* and holds the records, or the write fails
write_parquet(files, records, path, ok) ==
    IF ok THEN [files |-> Put(files, path, records), ret |-> OkUnit]
    ELSE [files |-> files, ret |-> Err("File::create")]

\* LocalStore::put(key, local_path): a copy of the local file under the key,
\* modified now; returns the path of the copy
LocalStore_put(store, key, files, local_path, now, ok) ==
    IF ok /\ local_path \in DOMAIN files
    THEN [store |-> Put(store, key, [records |-> files[local_path], modified |-> now]),
          ret |-> Ok(key)]
    ELSE [store |-> store, ret |-> Err("fs::copy")]

\* cleanup_old_files(root, retention): every file under the prefix modified
\* more than retention ago is removed
cleanup_old_files(store, prefix, retention, now) ==
    [key \in {k \in DOMAIN store :
                 ~(/\ k.exchange = prefix.exchange
                   /\ k.market = prefix.market
                   /\ now - store[k].modified > retention)} |-> store[key]]

\* LocalStore::cleanup(prefix, retention)
LocalStore_cleanup(store, prefix, retention, now, ok) ==
    IF ok THEN [store |-> cleanup_old_files(store, prefix, retention, now), ret |-> OkUnit]
    ELSE [store |-> store, ret |-> Err("fs::read_dir")]

\* IcebergSnapshot { id: now as u64, timestamp_ms: now, files: vec![file_path] }
IcebergSnapshot(table, now, file_path) ==
    [id |-> now, timestamp_ms |-> now, files |-> <<file_path>>]

\* a registration that starts the table anew
register_with_iceberg_Anew(metadata, file_path, now, ok) ==
    LET table == [format_version |-> 1, snapshots |-> <<>>]
    IN  IF ok
        THEN [metadata |-> [table EXCEPT
                               !.snapshots = Append(@, IcebergSnapshot(table, now, file_path))],
              ret |-> OkUnit]
        ELSE [metadata |-> metadata, ret |-> Err("fs::write")]

\* register_with_iceberg(metadata_path, file_path): the table of the metadata
\* file (a new one if there is no file) with one more snapshot, written back
register_with_iceberg(metadata, file_path, now, ok) ==
    LET table == IF metadata # NoFile THEN metadata
                 ELSE [format_version |-> 1, snapshots |-> <<>>]
    IN  IF ok
        THEN [metadata |-> [table EXCEPT
                               !.snapshots = Append(@, IcebergSnapshot(table, now, file_path))],
              ret |-> OkUnit]
        ELSE [metadata |-> metadata, ret |-> Err("fs::write")]

\* a buffer that never counts as empty
Vec_is_empty_Never(records) == FALSE

\* Vec::is_empty
Vec_is_empty(records) == records = <<>>

\* the exchange and market of the first record, "unknown" without one
Partition(records) ==
    IF records = <<>> THEN [exchange |-> "unknown", market |-> "unknown"]
    ELSE [exchange |-> records[1].exchange, market |-> records[1].market]

\* a loop that ends when a snapshot fails
SnapshotScheduler_start_Stop(result) == IF result = OkUnit THEN "tick" ELSE "stopped"

\* SnapshotScheduler::start: whatever snapshot_once returned (an error is
\* printed), the loop awaits the next tick
SnapshotScheduler_start(result) == "tick"

\* SnapshotScheduler::new(redis, store, iceberg_metadata, config) on an empty
\* buffer, store and temp directory, without a metadata file
SnapshotScheduler_new ==
    [redis |-> <<>>, files |-> <<>>, store |-> <<>>, metadata |-> NoFile]

Markets == {"eth-usd", "btc-usd"}

\* the n-th record a producer inserts
DataRecord(market, n) ==
    [exchange |-> "exch", market |-> market, record_type |-> "Trade", value |-> n]

\* scheduler: the scheduler's world (self), the clock, the place of the loop
\* (pc), the variables of the running snapshot_once (run), and counters of
\* what has happened: records inserted, ticks, snapshot_once calls that
\* returned (returned), the last result (result), the world the running or
\* last snapshot_once met when get_all gave it the records (pre) and the
\* files write_parquet has written (written)
SchedStep(next) ==
    /\ scheduler' = next
    /\ UNCHANGED <<seqVars, xfVars, bookVars, execVars, breaker, session, flowVars>>

\* snapshot_once returns result to the loop of start
Returns(sched, result) ==
    [sched EXCEPT !.pc = SnapshotScheduler_start(result),
                  !.result = result,
                  !.returned = @ + 1]

\* a producer calls redis.insert(record)
Insert ==
    /\ scheduler.inserted < MaxRecords
    /\ \E market \in Markets :
           SchedStep([scheduler EXCEPT
                         !.self.redis = FakeRedis_insert(@, DataRecord(market,
                                                                      scheduler.inserted + 1)),
                         !.inserted = @ + 1])

\* a millisecond passes
Advance ==
    /\ scheduler.clock < MaxClock
    /\ SchedStep([scheduler EXCEPT !.clock = @ + 1])

\* interval.tick() completes and snapshot_once is called
Tick ==
    /\ scheduler.pc = "tick"
    /\ scheduler.ticks < MaxTicks
    /\ SchedStep([scheduler EXCEPT !.pc = "get_all", !.ticks = @ + 1])

\* snapshot_once from get_all to the call of store.put
GetAll ==
    /\ scheduler.pc = "get_all"
    /\ LET got == FakeRedis_get_all(scheduler.self.redis)
           records == got.ret
           taken == [scheduler EXCEPT !.self.redis = got.data, !.pre = scheduler.self]
           file_name == scheduler.clock
           partition == Partition(records)
       IN  IF Vec_is_empty(records)
           THEN SchedStep(Returns(taken, OkUnit))
           ELSE \E ok \in BOOLEAN :
                    LET w == write_parquet(scheduler.self.files, records, file_name, ok)
                    IN  IF w.ret # OkUnit
                        THEN SchedStep(Returns(taken, w.ret))
                        ELSE SchedStep([taken EXCEPT
                                 !.self.files = w.files,
                                 !.pc = "put",
                                 !.written = Append(@, [file |-> file_name,
                                                        records |-> records]),
                                 !.run = [records |-> records,
                                          local_path |-> file_name,
                                          exchange |-> partition.exchange,
                                          market |-> partition.market,
                                          key |-> [exchange |-> partition.exchange,
                                                   market |-> partition.market,
                                                   file_name |-> file_name]]])

\* store.put completes, and register_with_iceberg follows
PutObject ==
    /\ scheduler.pc = "put"
    /\ \E ok \in BOOLEAN :
           LET p == LocalStore_put(scheduler.self.store, scheduler.run.key,
                                   scheduler.self.files, scheduler.run.local_path,
                                   scheduler.clock, ok)
           IN  IF p.ret.tag = "Err"
               THEN SchedStep(Returns(scheduler, p.ret))
               ELSE \E registers \in BOOLEAN :
                        LET r == register_with_iceberg(scheduler.self.metadata, p.ret.value,
                                                       scheduler.clock, registers)
                            stored == [scheduler EXCEPT !.self.store = p.store]
                        IN  IF r.ret # OkUnit
                            THEN SchedStep(Returns(stored, r.ret))
                            ELSE SchedStep([stored EXCEPT !.self.metadata = r.metadata,
                                                          !.pc = "cleanup",
                                                          !.registered = @ + 1])

\* store.cleanup completes and snapshot_once returns
Cleanup ==
    /\ scheduler.pc = "cleanup"
    /\ \E ok \in BOOLEAN :
           LET c == LocalStore_cleanup(scheduler.self.store,
                                       [exchange |-> scheduler.run.exchange,
                                        market |-> scheduler.run.market],
                                       Retention, scheduler.clock, ok)
           IN  SchedStep(Returns([scheduler EXCEPT !.self.store = c.store,
                                                   !.succeeded = IF ok THEN @ + 1 ELSE @],
                                 c.ret))

SchedInit ==
    /\ scheduler = [self |-> SnapshotScheduler_new,
                    clock |-> 0,
                    pc |-> "tick",
                    run |-> Absent,
                    inserted |-> 0,
                    ticks |-> 0,
                    returned |-> 0,
                    registered |-> 0,
                    succeeded |-> 0,
                    result |-> Absent,
                    pre |-> Absent,
                    written |-> <<>>]
    /\ breaker = Absent
    /\ session = Absent
    /\ NoFlow
    /\ NoExecution
    /\ NoSequencing

SchedNext == Insert \/ Advance \/ Tick \/ GetAll \/ PutObject \/ Cleanup

SchedSpec == SchedInit /\ [][SchedNext]_vars

\* the files write_parquet has written that hold the record
FilesOf(record) ==
    {i \in DOMAIN scheduler.written :
        \E j \in DOMAIN scheduler.written[i].records :
            scheduler.written[i].records[j] = record}

\* the records of a sequence
Range(records) == {records[i] : i \in DOMAIN records}

\* snapshot_once is past get_all with the records it found
Drained == scheduler.pc \in {"put", "cleanup"}

\* C24: snapshot_once takes the records out of the buffer: a record it found
\* is no longer in the buffer, so the buffer holds only records inserted after
\* the drain, and no record is written to more than one snapshot file
C24_AtomicDrain ==
    /\ Drained => Range(scheduler.self.redis) \cap Range(scheduler.run.records) = {}
    /\ \A i \in DOMAIN scheduler.written :
           \A j \in DOMAIN scheduler.written[i].records :
               Cardinality(FilesOf(scheduler.written[i].records[j])) <= 1

\* the snapshot entries of a metadata file
Snapshots(metadata) == IF metadata = NoFile THEN <<>> ELSE metadata.snapshots

IsPrefix(s, t) == Len(s) <= Len(t) /\ \A i \in DOMAIN s : s[i] = t[i]

\* every snapshot_once so far found records and returned Ok, and none is
\* running
OnlyGoodRuns == scheduler.pc = "tick" /\ scheduler.returned = scheduler.succeeded

\* every run has left the entries of the metadata file it met in place, and
\* every entry lists one file
Additive ==
    /\ scheduler.pre # Absent =>
           IsPrefix(Snapshots(scheduler.pre.metadata), Snapshots(scheduler.self.metadata))
    /\ \A i \in DOMAIN Snapshots(scheduler.self.metadata) :
           Len(Snapshots(scheduler.self.metadata)[i].files) = 1

\* the objects of the store are under the partition of a record that was
\* first in a buffer
UnderPrefix ==
    \A key \in DOMAIN scheduler.self.store :
        \E i \in DOMAIN scheduler.written :
            /\ scheduler.written[i].records # <<>>
            /\ key.exchange = scheduler.written[i].records[1].exchange
            /\ key.market = scheduler.written[i].records[1].market

DistinctFileNames ==
    \A i \in DOMAIN scheduler.written : \A j \in DOMAIN scheduler.written :
        scheduler.written[i].file = scheduler.written[j].file => i = j

\* no object has been older than the retention at a sweep
NothingExpired ==
    \A i \in DOMAIN scheduler.written :
        scheduler.clock - scheduler.written[i].file <= Retention

C26_SnapshotIds ==
    /\ Len(Snapshots(scheduler.self.metadata)) = scheduler.registered
    /\ \A i \in DOMAIN Snapshots(scheduler.self.metadata) :
           Snapshots(scheduler.self.metadata)[i].id = i

\* the last snapshot_once has returned and had found the buffer empty
ReturnedOnEmpty ==
    /\ scheduler.pc = "tick"
    /\ scheduler.returned > 0
    /\ scheduler.pre.redis = <<>>

\* C27: a snapshot_once that finds the buffer empty returns Ok and leaves the
\* temp directory, the store (nothing uploaded, nothing swept) and the
\* metadata file as they were, and is not counted as a file written or a
\* registration
C27_SkipEmpty ==
    /\ ReturnedOnEmpty =>
           /\ scheduler.result = OkUnit
           /\ scheduler.self.files = scheduler.pre.files
           /\ scheduler.self.store = scheduler.pre.store
           /\ scheduler.self.metadata = scheduler.pre.metadata
    /\ \A i \in DOMAIN scheduler.written : scheduler.written[i].records # <<>>
    /\ scheduler.registered <= Len(scheduler.written)

\* two ticks have found the buffer empty: no file, no object, no metadata,
\* as in test_snapshot_skip_empty
C27_Witness ==
    /\ ReturnedOnEmpty
    /\ scheduler.returned = 2
    /\ scheduler.self.files = <<>>
    /\ scheduler.self.store = <<>>
    /\ scheduler.self.metadata = NoFile

\* the loop of start with the interval's ticks arriving
SchedLiveSpec == SchedSpec /\ WF_vars(Tick)

\* snapshot_once is running
Running == scheduler.pc \in {"get_all", "put", "cleanup"}

\* the last snapshot_once failed and the interval has ticks left
FailedTick ==
    /\ ~Running
    /\ scheduler.result # Absent
    /\ scheduler.result.tag = "Err"
    /\ scheduler.ticks < MaxTicks

\* C28: the loop of start never ends: whatever step of snapshot_once failed
\* (file write, upload, registration, sweep), the loop awaits the next tick,
\* every tick has called snapshot_once, and after a failed snapshot_once the
\* next tick calls snapshot_once again
C28_LoopContinues ==
    /\ [](scheduler.pc \in {"tick", "get_all", "put", "cleanup"})
    /\ [](scheduler.ticks = scheduler.returned + (IF Running THEN 1 ELSE 0))
    /\ (FailedTick ~> scheduler.pc = "get_all")

\* snapshot_once has been called again after a run whose sweep failed
C28_Witness ==
    /\ scheduler.pc = "get_all"
    /\ scheduler.result # Absent
    /\ scheduler.result = Err("fs::read_dir")
    /\ scheduler.returned >= 1

(***************************************************************************)
(* CircuitBreaker: failures counted up to a threshold, then open for an    *)
(* interval.  Instants and durations are whole units of time.              *)
(***************************************************************************)
MaxThreshold == 2

MaxOpenInterval == 2

MaxInstant == 4

MaxFailures == 4

\* u8::MAX
U8Max == 255

\* u8::saturating_add
saturating_add(a, b) == IF a + b > U8Max THEN U8Max ELSE a + b

\* CircuitBreaker::new(threshold, open_interval)
CircuitBreaker_new(threshold, open_interval) ==
    [failures |-> 0, threshold |-> threshold, open_since |-> OkNone,
     open_interval |-> open_interval]

\* CircuitBreaker::is_open(&self), read at the instant now
CircuitBreaker_is_open(self, now) ==
    IF self.open_since.tag = "Some"
    THEN now - self.open_since.update < self.open_interval
    ELSE FALSE

\* a record_failure that opens one failure late
CircuitBreaker_record_failure_Late(self, now) ==
    IF CircuitBreaker_is_open(self, now) THEN self
    ELSE LET counted == [self EXCEPT !.failures = saturating_add(@, 1)]
         IN  IF counted.failures > counted.threshold
             THEN [counted EXCEPT !.open_since = OkSome(now)]
             ELSE counted

\* CircuitBreaker::record_failure(&mut self), called at the instant now
CircuitBreaker_record_failure(self, now) ==
    IF CircuitBreaker_is_open(self, now) THEN self
    ELSE LET counted == [self EXCEPT !.failures = saturating_add(@, 1)]
         IN  IF counted.failures >= counted.threshold
             THEN [counted EXCEPT !.open_since = OkSome(now)]
             ELSE counted

\* CircuitBreaker::reset(&mut self)
CircuitBreaker_reset(self) == [self EXCEPT !.failures = 0, !.open_since = OkNone]

\* CircuitBreaker::remaining(&self), read at the instant now
CircuitBreaker_remaining(self, now) ==
    IF self.open_since.tag = "Some"
    THEN OkSome(IF now - self.open_since.update >= self.open_interval THEN 0
                ELSE self.open_interval - (now - self.open_since.update))
    ELSE OkNone

\* breaker: the breaker (self), the instant (now), the call made last (op),
\* the record_failure calls since the last reset or new (calls) and the
\* instant of the threshold-th of them (reached)
BreakerStep(self, op, calls, reached) ==
    /\ breaker' = [breaker EXCEPT !.self = self, !.op = op, !.calls = calls,
                                  !.reached = reached]
    /\ UNCHANGED <<seqVars, xfVars, bookVars, execVars, scheduler, session, flowVars>>

RecordFailure ==
    /\ breaker.calls < MaxFailures
    /\ BreakerStep(CircuitBreaker_record_failure(breaker.self, breaker.now),
                   "record_failure",
                   breaker.calls + 1,
                   IF breaker.calls + 1 = breaker.self.threshold THEN OkSome(breaker.now)
                   ELSE breaker.reached)

Reset == BreakerStep(CircuitBreaker_reset(breaker.self), "reset", 0, OkNone)

\* time passes
Elapse ==
    /\ breaker.now < MaxInstant
    /\ breaker' = [breaker EXCEPT !.now = @ + 1, !.op = "none"]
    /\ UNCHANGED <<seqVars, xfVars, bookVars, execVars, scheduler, session, flowVars>>

BreakerInit ==
    /\ \E threshold \in 0..MaxThreshold, open_interval \in 0..MaxOpenInterval :
           breaker = [self |-> CircuitBreaker_new(threshold, open_interval),
                      now |-> 0, op |-> "new", calls |-> 0, reached |-> OkNone]
    /\ scheduler = Absent
    /\ session = Absent
    /\ NoFlow
    /\ NoExecution
    /\ NoSequencing

BreakerNext == RecordFailure \/ Reset \/ Elapse

BreakerSpec == BreakerInit /\ [][BreakerNext]_vars

\* C29: from the threshold-th record_failure since the last reset (or new)
\* until open_interval has elapsed since it, is_open() is true and
\* remaining() is what is left of the interval, whatever record_failure
\* calls follow; right after reset() is_open() is false and the failure count
\* is 0
C29_OpenForInterval ==
    /\ (/\ breaker.reached.tag = "Some"
        /\ breaker.now - breaker.reached.update < breaker.self.open_interval) =>
           /\ CircuitBreaker_is_open(breaker.self, breaker.now)
           /\ CircuitBreaker_remaining(breaker.self, breaker.now) =
                  OkSome(breaker.self.open_interval - (breaker.now - breaker.reached.update))
    /\ breaker.op = "reset" =>
           /\ ~CircuitBreaker_is_open(breaker.self, breaker.now)
           /\ breaker.self.failures = 0

\* the breaker is open one unit of time after its second failure, the
\* threshold, and a further failure has been recorded since
C29_Witness ==
    /\ breaker.self.threshold = 2
    /\ breaker.reached.tag = "Some"
    /\ breaker.now = breaker.reached.update + 1
    /\ breaker.calls = 3
    /\ breaker.op = "record_failure"
    /\ CircuitBreaker_is_open(breaker.self, breaker.now)

(***************************************************************************)
(* user_stream: the task that connects to a user WebSocket, sends the auth *)
(* payload, forwards parsed events into an unbounded channel and connects  *)
(* again after a sleep when the connection has ended.  The consumer holds  *)
(* the receiving end of the channel and may drop it.                       *)
(***************************************************************************)
MaxDials == 2

MaxFrames == 2

\* Duration::from_millis(50), the first backoff
InitialBackoffMs == 50

\* Duration::from_secs(30), the longest backoff, in milliseconds
MaxBackoffMs == 30000

\* the frames and outcomes ws.next() gives within the heartbeat interval, and
\* the interval passing without one
Balance == [frame |-> "Text", text |-> "balance"]

Order == [frame |-> "Text", text |-> "order"]

Garbage == [frame |-> "Text", text |-> "garbage"]

Received == {Balance, Order, Garbage,
             [frame |-> "Ping"], [frame |-> "Close"], [frame |-> "Err"],
             [frame |-> "End"], [frame |-> "Timeout"]}

\* UserWsEvent::parse(msg): the event of a text that is one, or None
UserWsEvent_parse(text) ==
    IF text \in {"balance", "order", "position"} THEN OkSome(text) ELSE OkNone

\* UnboundedSender::send(event): the event is queued while the receiver
\* lives, and handed back as an error once it is dropped
UnboundedSender_send(channel, event) ==
    IF channel.rx = "held"
    THEN [channel |-> [channel EXCEPT !.queue = Append(@, event)], ret |-> OkUnit]
    ELSE [channel |-> channel, ret |-> Err(event)]

\* the modules that have a user_stream of their own
Exchanges == {"user_ws_common", "binance_futures", "bitget_spot"}

\* bitget_spot: const BACKOFF_INITIAL, BACKOFF_MAX, BACKOFF_MULT, JITTER
BACKOFF_INITIAL == 50

BACKOFF_MAX == 1000

BACKOFF_MULT == 2

JITTER == 50

\* binance_futures: tokio::time::sleep(Duration::from_millis(50))
BinanceFuturesSleepMs == 50

\* rand::thread_rng().gen_range(0..=JITTER): the ends and the middle
Jitters == {0, JITTER \div 2, JITTER}

\* nothing has come out of an await yet
Pending == [frame |-> "Pending"]

\* user_ws_common: tokio::time::timeout(DEFAULT_HEARTBEAT_INTERVAL, ws.next()),
\* which gives Err(Elapsed) when the interval passes without a frame
timeout_ws_next(received) ==
    IF received.frame = "Timeout" THEN [frame |-> "Elapsed"] ELSE received

\* bitget_spot: with_heartbeat(stream, DEFAULT_HEARTBEAT_INTERVAL, ..), which
\* yields an error item when the interval passes without a frame
with_heartbeat(received) ==
    IF received.frame = "Timeout" THEN [frame |-> "Err"] ELSE received

\* binance_futures: ws.next() alone, which stays pending while no frame comes
ws_next(received) ==
    IF received.frame = "Timeout" THEN Pending ELSE received

\* what the await at the head of the while loop of run_connection gives
Awaited(exchange, received) ==
    CASE exchange = "user_ws_common" -> timeout_ws_next(received)
      [] exchange = "bitget_spot" -> with_heartbeat(received)
      [] exchange = "binance_futures" -> ws_next(received)

\* a loop body that gives up the connection on a text that is no event
run_connection_received_Strict(channel, received) ==
    IF received.frame \in {"Elapsed", "Err", "Close", "End"}
       \/ (received.frame = "Text" /\ UserWsEvent_parse(received.text).tag = "None")
    THEN [channel |-> channel, ret |-> Err("()"), sent |-> NotReached]
    ELSE IF received.frame = "Text"
    THEN LET sent == UnboundedSender_send(channel, UserWsEvent_parse(received.text).update)
         IN  [channel |-> sent.channel, ret |-> NotReached, sent |-> sent.ret]
    ELSE [channel |-> channel, ret |-> NotReached, sent |-> NotReached]

\* one turn of the while loop of run_connection on what the await gave:
\* ret is NotReached while the loop goes on, and Err(()) when run_connection
\* returns
run_connection_received(channel, received) ==
    IF received.frame \in {"Elapsed", "Err", "Close", "End"}
    THEN [channel |-> channel, ret |-> Err("()"), sent |-> NotReached]
    ELSE IF received.frame = "Text" /\ UserWsEvent_parse(received.text).tag = "Some"
    THEN LET sent == UnboundedSender_send(channel, UserWsEvent_parse(received.text).update)
         IN  [channel |-> sent.channel, ret |-> NotReached, sent |-> sent.ret]
    ELSE [channel |-> channel, ret |-> NotReached, sent |-> NotReached]

\* std::cmp::min(backoff * 2, Duration::from_secs(30))
NextBackoff(backoff) == IF backoff * 2 < MaxBackoffMs THEN backoff * 2 ELSE MaxBackoffMs

\* bitget_spot: (backoff * BACKOFF_MULT).min(BACKOFF_MAX)
BitgetNextBackoff(backoff) ==
    IF backoff * BACKOFF_MULT < BACKOFF_MAX THEN backoff * BACKOFF_MULT ELSE BACKOFF_MAX

\* the backoff of the task once connect has returned Ok: bitget_spot sets it
\* to BACKOFF_INITIAL, the other two leave it
user_stream_connected(exchange, backoff) ==
    IF exchange = "bitget_spot" THEN BACKOFF_INITIAL ELSE backoff

\* the delay handed to tokio::time::sleep
user_stream_delay(exchange, backoff, jitter) ==
    CASE exchange = "user_ws_common" -> backoff
      [] exchange = "bitget_spot" -> backoff + jitter
      [] exchange = "binance_futures" -> BinanceFuturesSleepMs

\* the backoff after the sleep
user_stream_backoff(exchange, backoff) ==
    CASE exchange = "user_ws_common" -> NextBackoff(backoff)
      [] exchange = "bitget_spot" -> BitgetNextBackoff(backoff)
      [] exchange = "binance_futures" -> backoff

\* the loop of user_stream after run_connection returned: a sleep and
\* another connect on Err, the end of the task on Ok
user_stream_after(result) == IF result.tag = "Err" THEN "sleep" ELSE "exited"

\* session: the module of the task (exchange), the place of the task (pc:
\* "connect", "auth", "read", "sleep", "exited"), its backoff, the channel
\* (rx: "held" or "dropped"; queue: the events sent and not yet taken), the
\* events the consumer has taken (seen), and history: connects called
\* (dials), turns of the read loop (frames), what the socket gave in them
\* (received), the latest of them while the task has done nothing since
\* (last), sends that
\* failed because the receiver was dropped (failed), what the task did after
\* the first failed send (afterFailed), whether the latest connect returned
\* Ok (connected), the sleeps since it did (since), and every sleep (slept)
SessionStep(next) ==
    /\ session' = next
    /\ UNCHANGED <<seqVars, xfVars, bookVars, execVars, scheduler, breaker, flowVars>>

\* what the task does is noted once a send has failed
Noting(what) ==
    IF session.failed > 0 THEN Append(session.afterFailed, what) ELSE session.afterFailed

\* connect(url.clone()).await
Connect ==
    /\ session.pc = "connect"
    /\ session.dials < MaxDials
    /\ \E ok \in BOOLEAN :
           SessionStep([session EXCEPT
                           !.pc = IF ok THEN "auth" ELSE "sleep",
                           !.backoff = IF ok THEN user_stream_connected(session.exchange, @)
                                       ELSE @,
                           !.dials = @ + 1,
                           !.connected = ok,
                           !.since = IF ok THEN 0 ELSE @,
                           !.last = NoCall,
                           !.afterFailed = Noting("connect")])

\* ws.send(WsMessage::text(auth_payload)).await
Auth ==
    /\ session.pc = "auth"
    /\ \E ok \in BOOLEAN :
           SessionStep([session EXCEPT
                           !.pc = IF ok THEN "read" ELSE user_stream_after(Err("()")),
                           !.last = NoCall])

\* the await at the head of the while loop and the body of the loop
Read ==
    /\ session.pc = "read"
    /\ session.frames < MaxFrames
    /\ \E received \in Received :
           LET r == run_connection_received(session.channel,
                                            Awaited(session.exchange, received))
           IN  SessionStep([session EXCEPT
                               !.pc = IF r.ret = NotReached THEN "read"
                                      ELSE user_stream_after(r.ret),
                               !.channel = r.channel,
                               !.frames = @ + 1,
                               !.received = Append(@, received),
                               !.last = [received |-> received],
                               !.failed = IF r.sent # NotReached /\ r.sent.tag = "Err"
                                          THEN @ + 1 ELSE @,
                               !.afterFailed = Noting("read")])

\* tokio::time::sleep(delay).await and the next backoff
Sleep ==
    /\ session.pc = "sleep"
    /\ \E jitter \in IF session.exchange = "bitget_spot" THEN Jitters ELSE {0} :
           SessionStep([session EXCEPT
                           !.pc = "connect",
                           !.backoff = user_stream_backoff(session.exchange, @),
                           !.since = @ + 1,
                           !.slept = Append(@, [delay |-> user_stream_delay(session.exchange,
                                                                            session.backoff, jitter),
                                                jitter |-> jitter,
                                                k |-> session.since + 1,
                                                established |-> session.connected]),
                           !.last = NoCall,
                           !.afterFailed = Noting("sleep")])

\* the consumer takes the next event of the stream
Take ==
    /\ session.channel.rx = "held"
    /\ session.channel.queue # <<>>
    /\ SessionStep([session EXCEPT !.channel.queue = Tail(@),
                                   !.seen = Append(@, Head(session.channel.queue))])

\* the consumer drops the stream, and with it the receiver and its queue
Drop ==
    /\ session.channel.rx = "held"
    /\ SessionStep([session EXCEPT !.channel = [rx |-> "dropped", queue |-> <<>>]])

SessionInit ==
    /\ \E exchange \in Exchanges :
           session = [exchange |-> exchange,
                      pc |-> "connect",
                      backoff |-> InitialBackoffMs,
                      channel |-> [rx |-> "held", queue |-> <<>>],
                      dials |-> 0,
                      frames |-> 0,
                      received |-> <<>>,
                      last |-> NoCall,
                      seen |-> <<>>,
                      failed |-> 0,
                      afterFailed |-> <<>>,
                      connected |-> FALSE,
                      since |-> 0,
                      slept |-> <<>>]
    /\ scheduler = Absent
    /\ breaker = Absent
    /\ NoFlow
    /\ NoExecution
    /\ NoSequencing

SessionNext == Connect \/ Auth \/ Read \/ Sleep \/ Take \/ Drop

SessionSpec == SessionInit /\ [][SessionNext]_vars

\* C30: once a send has failed because the consumer dropped the receiver,
\* the task has ended: it reads no further frame, sleeps for no reconnect
\* and calls connect no more
C30_EndsOnDrop ==
    session.failed > 0 =>
        /\ session.pc = "exited"
        /\ session.afterFailed = <<>>

\* the latest turn of the read loop was given this kind of outcome, and the
\* task has done nothing since
LastReceived(frame) ==
    /\ session.last # NoCall
    /\ session.last.received.frame = frame

\* C31: in the session of every module, once the heartbeat interval has
\* passed without a frame, or a close frame or an I/O error has come, the
\* connection has ended and the task is on its way to the next connect
C31_EndsConnection ==
    (LastReceived("Timeout") \/ LastReceived("Close") \/ LastReceived("Err")) =>
        session.pc = "sleep"

RECURSIVE Pow2(_)
Pow2(n) == IF n = 0 THEN 1 ELSE 2 * Pow2(n - 1)

\* min(50 * 2^(k-1), 30000)
ClaimedBackoff(k) ==
    IF InitialBackoffMs * Pow2(k - 1) < MaxBackoffMs
    THEN InitialBackoffMs * Pow2(k - 1) ELSE MaxBackoffMs

\* C32: the delay slept before the k-th attempt in a row that follows a
\* failure is min(50 * 2^(k-1), 30000) ms plus a jitter between 0 and 50 ms,
\* so that every delay lies between 50 ms and 30050 ms
C32_Backoff ==
    \A i \in 1..Len(session.slept) :
        LET sleep == session.slept[i]
        IN  /\ sleep.jitter \in 0..50
            /\ sleep.delay = ClaimedBackoff(sleep.k) + sleep.jitter
            /\ sleep.delay >= 50
            /\ sleep.delay <= 30050

\* the frames that parse as user events, as the events, in the order of the
\* frames
Events(frames) ==
    LET texts == SelectSeq(frames, LAMBDA f : /\ f.frame = "Text"
                                              /\ UserWsEvent_parse(f.text).tag = "Some")
    IN  [i \in 1..Len(texts) |-> UserWsEvent_parse(texts[i].text).update]

\* C33: a text frame that is no user event leaves the task in the read loop
\* of the same connection, and what the consumer has taken and has yet to
\* take is the events of the frames that parse, in the order of the frames
C33_BestEffort ==
    /\ (session.last # NoCall /\ session.last.received = Garbage) => session.pc = "read"
    /\ session.channel.rx = "held" =>
           session.seen \o session.channel.queue = Events(session.received)

\* a text that is no event and then an order came on one connection, and
\* the consumer has taken the order
C33_Witness ==
    /\ session.received = <<Garbage, Order>>
    /\ session.seen = <<"order">>
    /\ session.dials = 1
    /\ session.pc = "read"

\* C38: the sleep that follows a connection that was established is the
\* initial backoff of 50 ms, and the jitter where there is one
C38_ResetOnConnect ==
    \A i \in 1..Len(session.slept) :
        session.slept[i].established =>
            session.slept[i].delay = InitialBackoffMs + session.slept[i].jitter

\* C35: an open_order call that returns a rejected order leaves the engine
\* as it was: its books, its balances and its order-id sequence
C35_RejectionChangesNothing ==
    (Ordered /\ engine.call.ret.order.state.tag = "Err") =>
        /\ engine.self.books = engine.call.pre.books
        /\ engine.self.account = engine.call.pre.account
        /\ engine.self.order_sequence = engine.call.pre.order_sequence

\* the breaker was opened and its open_interval has elapsed with no reset
ImplicitlyClosed ==
    /\ breaker.self.open_since.tag = "Some"
    /\ ~CircuitBreaker_is_open(breaker.self, breaker.now)

\* C36: a breaker that has closed by the passing of open_interval has a
\* failure count of 0, and one further record_failure does not open it when
\* its threshold is more than one
C36_ClosedCountsAnew ==
    ImplicitlyClosed =>
        /\ breaker.self.failures = 0
        /\ (breaker.self.threshold > 1 /\ breaker.self.open_interval > 0) =>
               ~CircuitBreaker_is_open(
                    CircuitBreaker_record_failure(breaker.self, breaker.now), breaker.now)

\* C37: every file path an entry of the catalog lists is the key of an
\* object that is in the store
C37_ListedIsStored ==
    \A i \in DOMAIN Snapshots(scheduler.self.metadata) :
        \A j \in DOMAIN Snapshots(scheduler.self.metadata)[i].files :
            Snapshots(scheduler.self.metadata)[i].files[j] \in DOMAIN scheduler.self.store

(***************************************************************************)
(* The OKX transformer of one subscription, fed update messages whose data *)
(* array carries up to two entries.                                        *)
(***************************************************************************)
MaxOkxSeq == 2

MaxOkxCalls == 2

OkxSeqIds == 0..MaxOkxSeq

\* messages of the subscription with no entry, one entry or two entries
OkxMessages ==
    [subscription_id : {"s1"}, action : {"update"},
     data : {<<>>} \cup {<<d>> : d \in OkxOrderBookL2Snapshot(OkxSeqIds)}
                   \cup {<<d, e>> : d \in OkxOrderBookL2Snapshot(OkxSeqIds),
                                    e \in OkxOrderBookL2Snapshot(OkxSeqIds)}]

\* okx: the transformer, the latest call of transform (message, transformer
\* before, what validate_sequence returned, the events returned) and the
\* number of calls
OkxFeed ==
    /\ okx.calls < MaxOkxCalls
    /\ \E input \in OkxMessages :
           LET r == OkxOrderBooksL2Transformer_transform(okx.self, input)
           IN  okx' = [self |-> r.self,
                       call |-> [tag |-> "call", input |-> input, pre |-> okx.self,
                                 validated |-> r.validated, ret |-> r.ret],
                       calls |-> okx.calls + 1]
    /\ UNCHANGED <<seqVars, xfVars, bookVars, execVars, infraVars, stream, maker>>

OkxFeedInit ==
    /\ \E seq_id \in OkxSeqIds :
           okx = [self |-> [exchange |-> "Okx",
                            instrument_map |->
                                [sub_id \in {"s1"} |->
                                    Meta("k1", OkxOrderBookL2Sequencer_new(seq_id))]],
                  call |-> NoCall,
                  calls |-> 0]
    /\ stream = Absent
    /\ maker = Absent
    /\ NoInfra
    /\ NoExecution
    /\ NoSequencing

OkxFeedNext == OkxFeed

OkxSpec == OkxFeedInit /\ [][OkxFeedNext]_vars

\* the latest message was accepted by the sequencer
OkxAccepted == okx.call.tag = "call" /\ okx.call.validated.tag = "Some"

\* C39: for an accepted message the transformer returns one event per entry
\* of the data array, in the order of the entries, and the sequencer's
\* last_seq_id is the seq_id of the last entry
C39_EveryEntry ==
    OkxAccepted =>
        LET data == okx.call.input.data
        IN  /\ Len(okx.call.ret) = Len(data)
            /\ \A i \in DOMAIN data :
                   /\ i \in DOMAIN okx.call.ret
                   /\ okx.call.ret[i] =
                          Ok(MarketEvent("Okx", "k1", OrderBookEvent("Update", data[i].seq_id)))
            /\ okx.self.instrument_map["s1"].sequencer.last_seq_id = data[Len(data)].seq_id

(***************************************************************************)
(* The reconnecting stream: init_reconnecting_stream(init) with a backoff  *)
(* policy, termination on the errors the policy names and reconnection     *)
(* events, polled by a consumer.                                           *)
(***************************************************************************)
MaxInits == 3

MaxEvents == 4

\* Event::Item(result) and Event::Reconnecting(origin)
Item(result) == [tag |-> "Item", item |-> result]

Reconnecting == [tag |-> "Reconnecting"]

\* the items of an inner stream, and the inner streams init may return
InnerItems == {Ok(1), Ok(2), Err("()"), Err("e")}

InnerStreams ==
    {<<>>} \cup {<<a>> : a \in InnerItems} \cup {<<a, b>> : a \in InnerItems, b \in InnerItems}

\* a combinator that hands every error to the consumer before it reconnects
ReconnectingStream_poll_next_Deliver(inner, is_terminal) ==
    IF inner = <<>>
    THEN [event |-> Reconnecting, inner |-> <<>>, pc |-> "init"]
    ELSE [event |-> Item(Head(inner)), inner |-> Tail(inner), pc |-> "poll"]

\* what the combinator yields when it is polled: Reconnecting when the inner
\* stream has ended or its next item is an error is_terminal names, with
\* init to be invoked again, and the next item of the inner stream otherwise
ReconnectingStream_poll_next(inner, is_terminal) ==
    IF inner = <<>> \/ (Head(inner).tag = "Err" /\ Head(inner).error \in is_terminal)
    THEN [event |-> Reconnecting, inner |-> <<>>, pc |-> "init"]
    ELSE [event |-> Item(Head(inner)), inner |-> Tail(inner), pc |-> "poll"]

\* stream: the errors the policy treats as terminal (is_terminal), the place
\* of the combinator (pc: "init", "backoff", "poll", "failed"), what is left
\* of the inner stream (inner), and history: the calls of init (inits), the
\* inner streams it returned (given), the events the consumer has seen
\* (observed) and, for each of them, the number of the inner stream it came
\* from (origin)
StreamStep(next) ==
    /\ stream' = next
    /\ UNCHANGED <<seqVars, xfVars, bookVars, execVars, infraVars, okx, maker>>

\* init().await: an inner stream, or an error, which the first call hands to
\* the caller of init_reconnecting_stream
InvokeInit ==
    /\ stream.pc = "init"
    /\ stream.inits < MaxInits
    /\ \/ \E inner \in InnerStreams :
              StreamStep([stream EXCEPT !.pc = "poll", !.inner = inner,
                                        !.inits = @ + 1,
                                        !.given = Append(@, inner)])
       \/ StreamStep([stream EXCEPT !.pc = IF stream.inits = 0 THEN "failed" ELSE "backoff",
                                    !.inits = @ + 1,
                                    !.failures = @ + 1])

\* the sleep of the backoff policy after init returned an error
Backoff ==
    /\ stream.pc = "backoff"
    /\ StreamStep([stream EXCEPT !.pc = "init"])

\* the consumer polls the stream for its next event
Poll ==
    /\ stream.pc = "poll"
    /\ Len(stream.observed) < MaxEvents
    /\ LET next == ReconnectingStream_poll_next(stream.inner, stream.is_terminal)
       IN  StreamStep([stream EXCEPT !.pc = next.pc, !.inner = next.inner,
                                     !.observed = Append(@, next.event),
                                     !.origin = Append(@, Len(stream.given))])

StreamInit ==
    /\ \E is_terminal \in {{"()", "e"}, {"()"}} :
           stream = [is_terminal |-> is_terminal, pc |-> "init", inner |-> <<>>,
                     inits |-> 0, failures |-> 0, given |-> <<>>,
                     observed |-> <<>>, origin |-> <<>>]
    /\ okx = Absent
    /\ maker = Absent
    /\ NoInfra
    /\ NoExecution
    /\ NoSequencing

StreamNext == InvokeInit \/ Backoff \/ Poll

StreamSpec == StreamInit /\ [][StreamNext]_vars

\* the places of the items among the events the consumer has seen
ItemsSeen == {p \in DOMAIN stream.observed : stream.observed[p].tag = "Item"}

\* the Reconnecting events seen between the places p and q
ReconnectingBetween(p, q) ==
    {r \in DOMAIN stream.observed :
        p < r /\ r < q /\ stream.observed[r] = Reconnecting}

\* C34: when the inner stream has ended or given an error the policy treats
\* as terminal, the consumer sees Reconnecting and init is invoked again;
\* between the last item of an inner stream and the first item of the next
\* there is exactly one Reconnecting event; no terminal error is seen as an
\* item; and with init returning [Ok(1), Err(())] and then [Ok(2)] the first
\* three events are Item(Ok(1)), Reconnecting, Item(Ok(2)), seen after
\* exactly two calls of init
C34_Reconnecting ==
    /\ (stream.observed # <<>> /\ stream.observed[Len(stream.observed)] = Reconnecting) =>
           \/ stream.pc \in {"init", "backoff"}
           \/ Len(stream.given) > stream.origin[Len(stream.observed)]
    /\ \A p \in ItemsSeen : \A q \in ItemsSeen :
           (p < q /\ stream.origin[q] = stream.origin[p] + 1) =>
               Cardinality(ReconnectingBetween(p, q)) = 1
    /\ \A p \in ItemsSeen :
           ~(/\ stream.observed[p].item.tag = "Err"
             /\ stream.observed[p].item.error \in stream.is_terminal)
    /\ (/\ Len(stream.given) >= 2
        /\ stream.given[1] = <<Ok(1), Err("()")>>
        /\ stream.given[2] = <<Ok(2)>>
        /\ stream.failures = 0
        /\ Len(stream.observed) >= 3) =>
           /\ SubSeq(stream.observed, 1, 3) = <<Item(Ok(1)), Reconnecting, Item(Ok(2))>>
           /\ Len(stream.observed) = 3 => stream.inits = 2

\* init returned [Ok(1), Err(())] and then [Ok(2)], and the consumer has
\* seen three events
C34_Witness ==
    /\ stream.given = <<<<Ok(1), Err("()")>>, <<Ok(2)>>>>
    /\ stream.inits = 2
    /\ Len(stream.observed) = 3
    /\ stream.observed[2] = Reconnecting

(***************************************************************************)
(* AlwaysMaker::execute: one request worked by opening an order at the top *)
(* of the book, waiting cancel_after, cancelling and opening again, against*)
(* a client whose answers and a book whose top are not in its hands.       *)
(***************************************************************************)
MaxMakerQuantity == 2

MaxReposts == 2

\* ClientOrderId::random() draws one of these
ClientOrderIds == {"c1", "c2"}

\* the price of the best bid and of the best ask of the aggregator, None
\* for a side without levels; the best ask of a book with both is above its
\* best bid
Aggregators ==
    {a \in [best_bid : Option({1}), best_ask : Option({1, 2})] :
        (a.best_bid # None /\ a.best_ask # None) => a.best_bid < a.best_ask}

\* the match on request.state.side: best_bid() for a Buy, best_ask() for a
\* Sell, mapped to its price
AlwaysMaker_execute_price(side, aggregator) ==
    IF side = "Buy" THEN aggregator.best_bid ELSE aggregator.best_ask

\* a loop that goes on asking for the whole quantity
AlwaysMaker_execute_opened_Keep(remaining, state) ==
    LET filled == IF state.tag = "Ok" THEN state.value.filled_quantity ELSE 0
    IN  IF remaining <= filled THEN [remaining |-> remaining, pc |-> "done"]
        ELSE IF state.tag = "Ok" THEN [remaining |-> remaining, pc |-> "sleep"]
        ELSE [remaining |-> remaining, pc |-> "done"]

\* the loop body after open_order returned an order in the given state:
\* break when the order filled what remained, take what it filled off the
\* remaining quantity, and go on to sleep and cancel when the order has an
\* id, break when it has none
AlwaysMaker_execute_opened(remaining, state) ==
    LET filled == IF state.tag = "Ok" THEN state.value.filled_quantity ELSE 0
    IN  IF remaining <= filled THEN [remaining |-> remaining, pc |-> "done"]
        ELSE IF state.tag = "Ok" THEN [remaining |-> remaining - filled, pc |-> "sleep"]
        ELSE [remaining |-> remaining - filled, pc |-> "done"]

\* maker: the request (side, quantity asked, and the cid, price and quantity
\* of the order to open), remaining, results, the place in
\* the loop (pc: "loop", "open", "sleep", "cancel", "done"), and history:
\* the calls made to the client and the sleeps, in order (log), the ids
\* ClientOrderId::random() returned (randoms), the top of the book at the
\* latest read (read) and the sum of the filled quantities of the orders
\* returned (filled)
MakerStep(next) ==
    /\ maker' = next
    /\ UNCHANGED <<seqVars, xfVars, bookVars, execVars, infraVars, okx, stream>>

\* the test of the while loop, the read of the price from the aggregator,
\* whose book is as the market has left it, and the request of the next order
Quote ==
    /\ maker.pc = "loop"
    /\ IF maker.remaining <= 0
       THEN MakerStep([maker EXCEPT !.pc = "done"])
       ELSE \E aggregator \in Aggregators :
            LET price == AlwaysMaker_execute_price(maker.request.side, aggregator)
            IN  IF price = None
                THEN MakerStep([maker EXCEPT !.pc = "done", !.read = aggregator])
                ELSE \E cid \in ClientOrderIds :
                         MakerStep([maker EXCEPT
                                       !.pc = "open",
                                       !.read = aggregator,
                                       !.randoms = Append(@, cid),
                                       !.request.cid = cid,
                                       !.request.price = price,
                                       !.request.quantity = maker.remaining])

\* client.open_order(request).await and the rest of the loop body up to the
\* sleep
OpenAtTop ==
    /\ maker.pc = "open"
    /\ Len(maker.results) < MaxReposts
    /\ \E state \in {Err("rejected")}
                    \cup {Ok([id |-> Len(maker.results) + 1, filled_quantity |-> f]) :
                              f \in 0..MaxMakerQuantity} :
           LET order == [cid |-> maker.request.cid, side |-> maker.request.side,
                         price |-> maker.request.price,
                         quantity |-> maker.request.quantity, state |-> state]
               next == AlwaysMaker_execute_opened(maker.remaining, state)
           IN  MakerStep([maker EXCEPT
                             !.pc = next.pc,
                             !.remaining = next.remaining,
                             !.results = Append(@, order),
                             !.filled = @ + IF state.tag = "Ok"
                                            THEN state.value.filled_quantity ELSE 0,
                             !.log = Append(@, [op |-> "open", order |-> order,
                                                read |-> maker.read,
                                                filled |-> maker.filled])])

\* sleep(cancel_after).await
Wait ==
    /\ maker.pc = "sleep"
    /\ MakerStep([maker EXCEPT !.pc = "cancel", !.log = Append(@, [op |-> "sleep"])])

\* client.cancel_order(cancel).await, whose answer is not looked at
Cancel ==
    /\ maker.pc = "cancel"
    /\ \E ok \in BOOLEAN :
           LET order == maker.results[Len(maker.results)]
           IN  MakerStep([maker EXCEPT
                             !.pc = "loop",
                             !.log = Append(@, [op |-> "cancel", cid |-> order.cid,
                                                id |-> order.state.value.id,
                                                ok |-> ok])])

MakerInit ==
    /\ \E side \in {"Buy", "Sell"}, quantity \in 0..MaxMakerQuantity :
           maker = [request |-> [side |-> side, cid |-> "c0", price |-> 0,
                                 quantity |-> quantity],
                    asked |-> quantity,
                    remaining |-> quantity,
                    results |-> <<>>,
                    pc |-> "loop",
                    log |-> <<>>,
                    randoms |-> <<>>,
                    read |-> [best_bid |-> None, best_ask |-> None],
                    filled |-> 0]
    /\ okx = Absent
    /\ stream = Absent
    /\ NoInfra
    /\ NoExecution
    /\ NoSequencing

MakerNext == Quote \/ OpenAtTop \/ Wait \/ Cancel

MakerSpec == MakerInit /\ [][MakerNext]_vars

\* the places of the log where an order was opened
Opens == {p \in DOMAIN maker.log : maker.log[p].op = "open"}

\* the order opened at p was given an id and was not filled in full
Resting(p) ==
    /\ maker.log[p].order.state.tag = "Ok"
    /\ maker.log[p].order.state.value.filled_quantity < maker.log[p].order.quantity

\* a cancel for the order opened at p has been issued
CancelIssued(p) ==
    \E c \in DOMAIN maker.log :
        /\ c > p
        /\ maker.log[c].op = "cancel"
        /\ maker.log[c].id = maker.log[p].order.state.value.id

\* C40: every order opened asks for the quantity not yet filled, at the top
\* of the book of its own side as it was read for it, under the client order
\* id drawn for it; an order is opened after another only when that one was
\* not filled in full, cancel_after was waited and a cancel for its id was
\* issued, so that at most one order is without a cancel; and the loop has
\* ended only with the quantity filled, with no price on the own side, or
\* with an order rejected
C40_RepostUntilFilled ==
    /\ \A p \in Opens :
           LET o == maker.log[p]
               n == Cardinality({q \in Opens : q <= p})
           IN  /\ o.order.quantity = maker.asked - o.filled
               /\ o.order.quantity > 0
               /\ o.order.price # None
               /\ o.order.price = IF o.order.side = "Buy" THEN o.read.best_bid
                                  ELSE o.read.best_ask
               /\ o.order.cid = maker.randoms[n]
               /\ p > 1 =>
                      /\ p >= 4
                      /\ maker.log[p - 3].op = "open"
                      /\ Resting(p - 3)
                      /\ maker.log[p - 2].op = "sleep"
                      /\ maker.log[p - 1].op = "cancel"
                      /\ maker.log[p - 1].id = maker.log[p - 3].order.state.value.id
    /\ Cardinality({p \in Opens : Resting(p) /\ ~CancelIssued(p)}) <= 1
    /\ Len(maker.randoms) <= Cardinality(Opens) + 1
    /\ (/\ maker.results # <<>>
        /\ \/ maker.results[Len(maker.results)].state.tag = "Err"
           \/ maker.filled >= maker.asked) => maker.pc = "done"
    /\ maker.pc = "done" =>
           \/ maker.filled >= maker.asked
           \/ AlwaysMaker_execute_price(maker.request.side, maker.read) = None
           \/ /\ maker.results # <<>>
              /\ maker.results[Len(maker.results)].state.tag = "Err"

\* an order of two was filled by one, cancelled after the wait, and the
\* order opened next for the one that was left was filled
C40_Witness ==
    /\ maker.pc = "done"
    /\ maker.asked = 2
    /\ Len(maker.results) = 2
    /\ maker.results[1].state.tag = "Ok"
    /\ maker.results[1].state.value.filled_quantity = 1
    /\ maker.results[2].quantity = 1
    /\ maker.results[2].state.tag = "Ok"
    /\ maker.results[2].state.value.filled_quantity = 1

====
